---- MODULE Spec2Model ----
(***************************************************************************)
(* Khash: the open-addressing hash table (map and set) of src/base/ds.    *)
(* The table is the record `bucket` of Khash.h; every public operation is  *)
(* an operator from a table to a table (and its results), translated from  *)
(* the code, and an action of the specification applies it.                *)
(***************************************************************************)
EXTENDS Integers, Sequences, FiniteSets, TLC

(* ---- bounds of the model ---- *)
NumActive == 2       \* keys the driver uses freely
NumFill == 11        \* keys the driver bulk-loads, in index order
NumVals == 2         \* values 1..NumVals
MaxResize == 32      \* largest capacity asked of resize()
Spare == 3            \* keys of the large table beyond the shrink threshold
MaxShrink == 65536   \* largest size the shrink arithmetic is checked for
NumOrigins == 3      \* connections that send requests to the authentication hub
NumMid == 24         \* keys in a run of the mid-size tables that are rehashed

(* ---- program constants ---- *)
MIN_CAPACITY == 16
SHRINK_THRESHOLD == 4096

Active == 1..NumActive
Fill == (NumActive + 1)..(NumActive + NumFill)
Keys == Active \cup Fill
Vals == 1..NumVals
\* the keys of the large table
Bulk == (NumActive + NumFill + 1)..(NumActive + NumFill + SHRINK_THRESHOLD + Spare)
NoKey == 0           \* bytes of a slot never written
NoVal == 0

VARIABLES ISMAP, bucket, expected, inserted, probe, waitlist, message, lockedOut
vars == <<ISMAP, bucket, expected, inserted, probe, waitlist, message, lockedOut>>
\* the state of the table and of what is recorded about its calls, and the
\* state of the authentication hub
tableVars == <<ISMAP, bucket, expected, inserted, probe>>
hubVars == <<waitlist, message, lockedOut>>

(* ---- the template parameters HFN and EQFN ---- *)
\* the active keys collide in slot 5 of a table of 16; the filler keys collide
\* among themselves (15, 31 and 47 wrap around the end of the table); the keys
\* of the large table are spread by a multiplicative hash of 16 bits
ActiveHash == <<5, 21, 37>>
FillHash == <<15, 31, 47, 6, 22, 1, 17, 3, 19, 10, 12, 8>>
hash(key) ==
    IF key <= NumActive THEN ActiveHash[((key - 1) % Len(ActiveHash)) + 1]
    ELSE IF key <= NumActive + NumFill
    THEN FillHash[((key - NumActive - 1) % Len(FillHash)) + 1]
    ELSE (key * 40503) % 65536
equal(a, b) == a = b

(* ---- Twiddler::power2Ceil ---- *)
RECURSIVE power2From(_, _)
power2From(p, n) == IF p >= n THEN p ELSE power2From(2 * p, n)
power2Ceil(n) == IF n = 0 THEN 0 ELSE power2From(1, n)

(* ---- the flag vector: two bits per slot, bit 1 = empty, bit 0 = deleted ---- *)
isEmpty(flag, i) == (flag[i] \div 2) % 2 = 1
isDeleted(flag, i) == flag[i] % 2 = 1
isEither(flag, i) == flag[i] % 4 # 0
setIsemptyFalse(flag, i) == [flag EXCEPT ![i] = @ % 2]
setIsbothFalse(flag, i) == [flag EXCEPT ![i] = 0]
\* variant: the slot is given back as Empty
setIsdeletedTrue_asEmpty(flag, i) == [flag EXCEPT ![i] = 2]
setIsdeletedTrue(flag, i) == [flag EXCEPT ![i] = 2 * (@ \div 2) + 1]
createFlags(entries) == [i \in 0..(entries - 1) |-> 2]

\* variant: the step of textbook quadratic probing
linearProbe_square(index, step, mask) == (index + step * step) % (mask + 1)
\* variant: the walk moves two slots at every step
linearProbe_stride(index, step, mask) == (index + 2) % (mask + 1)
linearProbe(index, step, mask) == (index + step) % (mask + 1)
\* variant: the bound truncated instead of rounded
calculateUpperBound_truncated(capacity) == (capacity * 77) \div 100
calculateUpperBound(capacity) == (capacity * 77 + 50) \div 100

(* ---- the slot store ---- *)
Uninit == [key |-> NoKey, value |-> NoVal]
resizeContainer(entries, n) ==
    [i \in 0..(n - 1) |-> IF i \in DOMAIN entries THEN entries[i] ELSE Uninit]

Khash == [capacity |-> 0, size |-> 0, occupied |-> 0, upperBound |-> 0,
          flags |-> createFlags(0), entries |-> resizeContainer(<<>>, 0)]

end(b) == b.capacity
begin(b) == 0
exists(b, x) == x < end(b) /\ ~isEither(b.flags, x)
getKey(b, x) == b.entries[x].key
getValue(b, x) == b.entries[x].value
setKey(entries, x, key) == [entries EXCEPT ![x].key = key]
valueAt(entries, x, val) == [entries EXCEPT ![x].value = val]
setValue(b, x, val) ==
    IF ISMAP /\ exists(b, x) THEN [b EXCEPT !.entries = valueAt(@, x, val)] ELSE b

(* ---- get: the probe of lines 653-660 ---- *)
\* variant: the probe returns the slot it stops at, Empty or not
RECURSIVE getProbe_anySlot(_, _, _, _, _)
getProbe_anySlot(b, key, index, step, start) ==
    IF ~isEmpty(b.flags, index)
       /\ (isDeleted(b.flags, index) \/ ~equal(getKey(b, index), key))
    THEN LET next == linearProbe(index, step + 1, b.capacity - 1)
         IN IF next = start THEN end(b)
            ELSE getProbe_anySlot(b, key, next, step + 1, start)
    ELSE index

RECURSIVE getProbe(_, _, _, _, _)
getProbe(b, key, index, step, start) ==
    IF ~isEmpty(b.flags, index)
       /\ (isDeleted(b.flags, index) \/ ~equal(getKey(b, index), key))
    THEN LET next == linearProbe(index, step + 1, b.capacity - 1)
         IN IF next = start THEN end(b)
            ELSE getProbe(b, key, next, step + 1, start)
    ELSE IF isEither(b.flags, index) THEN end(b) ELSE index

get(b, key) ==
    IF b.capacity # 0
    THEN LET index == hash(key) % b.capacity
         IN getProbe(b, key, index, 0, index)
    ELSE 0

contains(b, key) == get(b, key) # end(b)

hmGet(b, key) ==
    LET i == get(b, key)
    IN IF i # end(b) THEN [ret |-> TRUE, val |-> getValue(b, i)]
       ELSE [ret |-> FALSE, val |-> NoVal]

(* ---- resize: the rehash of lines 582-641 ---- *)
\* variant: the item goes to its initial slot, taken or not
probeNew_first(newFlags, i, step, newMask) == i

RECURSIVE probeNew(_, _, _, _)
probeNew(newFlags, i, step, newMask) ==
    IF ~isEmpty(newFlags, i)
    THEN probeNew(newFlags, linearProbe(i, step + 1, newMask), step + 1, newMask)
    ELSE i

\* st = [flags, newFlags, entries]: the old flags, the new flags and the slot
\* store during the rehash; (key, val) is the item in hand

\* variant: the rehash writes the key of the item and leaves the value behind
place_keyOnly(st, i, key, val) ==
    [st EXCEPT !.newFlags = setIsemptyFalse(@, i), !.entries = setKey(@, i, key)]

\* the item is written to slot i, which the new flags show taken
place(st, i, key, val) ==
    [st EXCEPT !.newFlags = setIsemptyFalse(@, i),
               !.entries = IF ISMAP THEN valueAt(setKey(@, i, key), i, val)
                           ELSE setKey(@, i, key)]

\* the kick-out loop: an occupant of the old table that has not moved yet is
\* taken in hand in exchange
RECURSIVE kickOut(_, _, _, _, _)
kickAt(st, capacity, key, val, newMask, i) ==
    IF i < capacity /\ ~isEither(st.flags, i)
    THEN kickOut([place(st, i, key, val) EXCEPT !.flags = setIsdeletedTrue(@, i)],
                 capacity, st.entries[i].key, st.entries[i].value, newMask)
    ELSE place(st, i, key, val)

kickOut(st, capacity, key, val, newMask) ==
    kickAt(st, capacity, key, val, newMask,
           probeNew(st.newFlags, hash(key) % (newMask + 1), 0, newMask))

\* the loop of lines 582-632 over the old slots lo .. hi - 1 in increasing
\* order: the lower half of the range, then the upper half
RECURSIVE rehashRange(_, _, _, _, _)
rehashRange(st, capacity, lo, hi, newMask) ==
    IF lo >= hi \/ lo \notin DOMAIN st.flags THEN st
    ELSE IF hi = lo + 1
    THEN IF ~isEither(st.flags, lo)
         THEN kickOut([st EXCEPT !.flags = setIsdeletedTrue(@, lo)], capacity,
                      st.entries[lo].key, st.entries[lo].value, newMask)
         ELSE st
    ELSE rehashRange(rehashRange(st, capacity, lo, (lo + hi) \div 2, newMask),
                     capacity, (lo + hi) \div 2, hi, newMask)

\* the old slots from j on
rehash(st, capacity, j, newMask) == rehashRange(st, capacity, j, capacity, newMask)

\* variant: the table takes the new flags and keeps its count of occupied slots
adopt_keepOccupied(b, newCapacity, st) ==
    [capacity |-> newCapacity, size |-> b.size, occupied |-> b.occupied,
     upperBound |-> calculateUpperBound(newCapacity),
     flags |-> st.newFlags,
     entries |-> IF b.capacity > newCapacity
                 THEN resizeContainer(st.entries, newCapacity)
                 ELSE st.entries]

\* lines 633-641: the table takes the new flags; a shrunk store is truncated
adopt(b, newCapacity, st) ==
    [capacity |-> newCapacity, size |-> b.size, occupied |-> b.size,
     upperBound |-> calculateUpperBound(newCapacity),
     flags |-> st.newFlags,
     entries |-> IF b.capacity > newCapacity
                 THEN resizeContainer(st.entries, newCapacity)
                 ELSE st.entries]

\* variant: a table whose size is the bound of the new capacity is rehashed
resizeTo_atBound(b, newCapacity) ==
    IF b.size > calculateUpperBound(newCapacity)
    THEN b
    ELSE adopt(b, newCapacity,
               rehash([flags |-> b.flags, newFlags |-> createFlags(newCapacity),
                       entries |-> IF b.capacity < newCapacity
                                   THEN resizeContainer(b.entries, newCapacity)
                                   ELSE b.entries],
                      b.capacity, 0, newCapacity - 1))

\* lines 563-632, newCapacity rounded and clamped
resizeTo(b, newCapacity) ==
    IF b.size >= calculateUpperBound(newCapacity)
    THEN b
    ELSE adopt(b, newCapacity,
               rehash([flags |-> b.flags, newFlags |-> createFlags(newCapacity),
                       entries |-> IF b.capacity < newCapacity
                                   THEN resizeContainer(b.entries, newCapacity)
                                   ELSE b.entries],
                      b.capacity, 0, newCapacity - 1))

resize(b, n) ==
    resizeTo(b, IF power2Ceil(n) < MIN_CAPACITY THEN MIN_CAPACITY ELSE power2Ceil(n))

(* ---- put ---- *)
\* variant: the probe stops at the first deleted slot it meets
RECURSIVE putProbe_stopAtDeleted(_, _, _, _, _, _)
putProbe_stopAtDeleted(b, key, i, step, site, start) ==
    IF ~isEither(b.flags, i) /\ ~equal(getKey(b, i), key)
    THEN LET next == linearProbe(i, step + 1, b.capacity - 1)
         IN IF next = start THEN [i |-> next, site |-> site, index |-> site]
            ELSE putProbe_stopAtDeleted(b, key, next, step + 1, site, start)
    ELSE [i |-> i, site |-> site, index |-> end(b)]

\* variant: the probe keeps the first deleted slot it meets
RECURSIVE putProbe_firstDeleted(_, _, _, _, _, _)
putProbe_firstDeleted(b, key, i, step, site, start) ==
    IF ~isEmpty(b.flags, i) /\ (isDeleted(b.flags, i) \/ ~equal(getKey(b, i), key))
    THEN LET seen == IF isDeleted(b.flags, i) /\ site = end(b) THEN i ELSE site
             next == linearProbe(i, step + 1, b.capacity - 1)
         IN IF next = start THEN [i |-> next, site |-> seen, index |-> seen]
            ELSE putProbe_firstDeleted(b, key, next, step + 1, seen, start)
    ELSE [i |-> i, site |-> site, index |-> end(b)]

\* the probe loop of lines 689-702: [i, site, index]
RECURSIVE putProbe(_, _, _, _, _, _)
putProbe(b, key, i, step, site, start) ==
    IF ~isEmpty(b.flags, i) /\ (isDeleted(b.flags, i) \/ ~equal(getKey(b, i), key))
    THEN LET seen == IF isDeleted(b.flags, i) THEN i ELSE site
             next == linearProbe(i, step + 1, b.capacity - 1)
         IN IF next = start THEN [i |-> next, site |-> seen, index |-> seen]
            ELSE putProbe(b, key, next, step + 1, seen, start)
    ELSE [i |-> i, site |-> site, index |-> end(b)]

\* variant: the slot the loop stopped at is taken, whatever it passed over
putSite_stop(b, r) ==
    IF r.index = end(b) THEN r.i ELSE r.index

\* lines 703-711: the index after the loop, r what the loop left
putSite(b, r) ==
    IF r.index = end(b)
    THEN IF isEmpty(b.flags, r.i) /\ r.site # end(b) THEN r.site ELSE r.i
    ELSE r.index

putIndex(b, key) ==
    LET i == hash(key) % b.capacity
    IN IF isEmpty(b.flags, i) THEN i
       ELSE putSite(b, putProbe(b, key, i, 0, end(b), i))

\* variant: the tombstones are cleared only when capacity is above four sizes
putResize_quarter(b) ==
    IF b.occupied >= b.upperBound
    THEN IF b.capacity > 4 * b.size THEN resize(b, b.capacity - 1)
         ELSE resize(b, b.capacity + 1)
    ELSE b

\* variant: the table is updated one insertion early
putResize_early(b) ==
    IF b.occupied + 1 >= b.upperBound
    THEN IF b.capacity > 2 * b.size THEN resize(b, b.capacity - 1)
         ELSE resize(b, b.capacity + 1)
    ELSE b

\* variant: a table in use is updated one insertion late
putResize_late(b) ==
    IF b.capacity = 0 \/ b.occupied > b.upperBound
    THEN IF b.capacity > 2 * b.size THEN resize(b, b.capacity - 1)
         ELSE resize(b, b.capacity + 1)
    ELSE b

\* variant: a table at its bound always grows
putResize_grow(b) ==
    IF b.occupied >= b.upperBound THEN resize(b, b.capacity + 1) ELSE b

putResize(b) ==
    IF b.occupied >= b.upperBound
    THEN IF b.capacity > 2 * b.size THEN resize(b, b.capacity - 1)
         ELSE resize(b, b.capacity + 1)
    ELSE b

\* variant: an Empty slot that is claimed is not counted occupied
putAt_sizeOnly(b, key, index) ==
    IF isEither(b.flags, index)
    THEN [b |-> [b EXCEPT !.entries = setKey(@, index, key),
                          !.flags = setIsbothFalse(@, index),
                          !.size = @ + 1],
          index |-> index, ret |-> IF isEmpty(b.flags, index) THEN 1 ELSE 2]
    ELSE [b |-> b, index |-> index, ret |-> 0]

\* variant: a Deleted slot that is claimed is counted occupied once more
putAt_countsDeleted(b, key, index) ==
    IF isEither(b.flags, index)
    THEN [b |-> [b EXCEPT !.entries = setKey(@, index, key),
                          !.flags = setIsbothFalse(@, index),
                          !.size = @ + 1, !.occupied = @ + 1],
          index |-> index, ret |-> IF isEmpty(b.flags, index) THEN 1 ELSE 2]
    ELSE [b |-> b, index |-> index, ret |-> 0]

\* lines 715-729: the slot at index is claimed, unless it holds the key
putAt(b, key, index) ==
    IF isEmpty(b.flags, index)
    THEN [b |-> [b EXCEPT !.entries = setKey(@, index, key),
                          !.flags = setIsbothFalse(@, index),
                          !.size = @ + 1, !.occupied = @ + 1],
          index |-> index, ret |-> 1]
    ELSE IF isDeleted(b.flags, index)
         THEN [b |-> [b EXCEPT !.entries = setKey(@, index, key),
                               !.flags = setIsbothFalse(@, index),
                               !.size = @ + 1],
               index |-> index, ret |-> 2]
         ELSE [b |-> b, index |-> index, ret |-> 0]

putProbed(b, key) == putAt(b, key, putIndex(b, key))

\* put(key, ret): [b, index, ret]
put(b0, key) == putProbed(putResize(b0), key)

(* ---- remove ---- *)
\* variant: remove gives the slot back
remove_occupied(b0, x, shrink) ==
    IF exists(b0, x)
    THEN [b0 EXCEPT !.flags = setIsdeletedTrue(@, x), !.size = @ - 1,
                    !.occupied = @ - 1]
    ELSE b0

\* variant: the table is fixed when size has fallen below an eighth of capacity
removeShrink_eighth(b, shrink) ==
    IF shrink /\ b.size > SHRINK_THRESHOLD /\ b.size < b.capacity \div 8
    THEN resize(b, (b.size * 150) \div 77)
    ELSE b

\* variant: a sparse table of 4096 entries is fixed too
removeShrink_atThreshold(b, shrink) ==
    IF shrink /\ b.size >= SHRINK_THRESHOLD /\ b.size < b.capacity \div 4
    THEN resize(b, (b.size * 150) \div 77)
    ELSE b

\* variant: a sparse table is fixed whatever its size
removeShrink_anySize(b, shrink) ==
    IF shrink /\ b.size < b.capacity \div 4
    THEN resize(b, (b.size * 150) \div 77)
    ELSE b

\* variant: the sparse table is resized for four times its size
removeShrink_wide(b, shrink) ==
    IF shrink /\ b.size > SHRINK_THRESHOLD /\ b.size < b.capacity \div 4
    THEN resize(b, 4 * b.size)
    ELSE b

\* lines 740-743: a table that has become too sparse is fixed
removeShrink(b, shrink) ==
    IF shrink /\ b.size > SHRINK_THRESHOLD /\ b.size < b.capacity \div 4
    THEN resize(b, (b.size * 150) \div 77)
    ELSE b

\* variant: remove tests the index against end() and not the flags
remove_anyState(b0, x, shrink) ==
    removeShrink(IF x < end(b0)
                 THEN [b0 EXCEPT !.flags = setIsdeletedTrue(@, x), !.size = @ - 1]
                 ELSE b0,
                 shrink)

remove(b0, x, shrink) ==
    removeShrink(IF exists(b0, x)
                 THEN [b0 EXCEPT !.flags = setIsdeletedTrue(@, x), !.size = @ - 1]
                 ELSE b0,
                 shrink)

\* variant: removeKey reports a removal whatever get found
removeKey_true(b, key) ==
    LET i == get(b, key)
    IN [b |-> remove(b, i, TRUE), ret |-> TRUE]

removeKey(b, key) ==
    LET i == get(b, key)
    IN IF i # end(b) THEN [b |-> remove(b, i, TRUE), ret |-> TRUE]
       ELSE [b |-> b, ret |-> FALSE]

(* ---- the map and set operations ---- *)
\* r is what put returned
hmPutValue(r, val) ==
    IF r.ret # 0
    THEN [b |-> [r.b EXCEPT !.entries = valueAt(@, r.index, val)], ret |-> TRUE]
    ELSE [b |-> r.b, ret |-> FALSE]

\* variant: hmPut writes the value of a key that is present too
hmPut_overwrite(b, key, val) ==
    IF ISMAP
    THEN LET r == put(b, key)
         IN [b |-> [r.b EXCEPT !.entries = valueAt(@, r.index, val)],
             ret |-> r.ret # 0]
    ELSE [b |-> b, ret |-> FALSE]

hmPut(b, key, val) ==
    IF ISMAP THEN hmPutValue(put(b, key), val) ELSE [b |-> b, ret |-> FALSE]

\* oldVal is the caller's variable: `old` is what it held before the call
hmReplaceValue(r, val, old) ==
    IF r.ret # 0
    THEN [b |-> [r.b EXCEPT !.entries = valueAt(@, r.index, val)],
          ret |-> FALSE, oldVal |-> old]
    ELSE [b |-> [r.b EXCEPT !.entries = valueAt(@, r.index, val)],
          ret |-> TRUE, oldVal |-> getValue(r.b, r.index)]

\* variant: hmReplace reads the old value after writing the new one
hmReplace_readAfter(b, key, val, old) ==
    IF ISMAP
    THEN LET r == put(b, key)
         IN [b |-> [r.b EXCEPT !.entries = valueAt(@, r.index, val)],
             ret |-> r.ret = 0, oldVal |-> IF r.ret = 0 THEN val ELSE old]
    ELSE [b |-> b, ret |-> FALSE, oldVal |-> old]

hmReplace(b, key, val, old) ==
    IF ISMAP THEN hmReplaceValue(put(b, key), val, old)
    ELSE [b |-> b, ret |-> FALSE, oldVal |-> old]

hsPutResult(r) == [b |-> r.b, ret |-> r.ret # 0]

\* variant: hsPut reports only the insertions into an Empty slot
hsPut_freshOnly(b, key) ==
    IF ~ISMAP
    THEN LET r == put(b, key) IN [b |-> r.b, ret |-> r.ret = 1]
    ELSE [b |-> b, ret |-> FALSE]

hsPut(b, key) ==
    IF ~ISMAP THEN hsPutResult(put(b, key)) ELSE [b |-> b, ret |-> FALSE]

\* variant: clear leaves the count of occupied slots
clear_keepOccupied(b) ==
    [b EXCEPT !.flags = createFlags(b.capacity), !.size = 0]

clear(b) ==
    [b EXCEPT !.flags = createFlags(b.capacity), !.size = 0, !.occupied = 0]

\* variant: the key is put in place of the one removed and the value stays behind
hmSwapMoved_noValue(r, val, toSecond) ==
    [b |-> r.b,
     iterators |-> IF toSecond THEN <<end(r.b), r.index>> ELSE <<r.index, end(r.b)>>,
     ret |-> TRUE]

\* lines 518-535: the value moves to the key put in place of the one removed;
\* r is what put returned, toSecond whether the second key was put
hmSwapMoved(r, val, toSecond) ==
    [b |-> setValue(r.b, r.index, val),
     iterators |-> IF toSecond THEN <<end(r.b), r.index>> ELSE <<r.index, end(r.b)>>,
     ret |-> TRUE]

\* variant: two keys that are both present exchange values whatever the flag
hmSwapAt_anyFlag(b, first, second, swap, fi, si) ==
    IF fi = si
    THEN [b |-> b, iterators |-> <<fi, si>>, ret |-> exists(b, fi)]
    ELSE IF exists(b, fi) /\ exists(b, si)
    THEN [b |-> setValue(setValue(b, fi, getValue(b, si)), si, getValue(b, fi)),
          iterators |-> <<fi, si>>, ret |-> TRUE]
    ELSE IF exists(b, fi) /\ ~exists(b, si)
    THEN hmSwapMoved(put(remove(b, fi, TRUE), second), getValue(b, fi), TRUE)
    ELSE IF ~exists(b, fi) /\ exists(b, si)
    THEN hmSwapMoved(put(remove(b, si, TRUE), first), getValue(b, si), FALSE)
    ELSE [b |-> b, iterators |-> <<fi, si>>, ret |-> FALSE]

\* variant: equal iterators are reported as a success without the exists() test
hmSwapAt_sameTrue(b, first, second, swap, fi, si) ==
    IF fi = si
    THEN [b |-> b, iterators |-> <<fi, si>>, ret |-> TRUE]
    ELSE IF exists(b, fi) /\ exists(b, si) /\ swap
    THEN [b |-> setValue(setValue(b, fi, getValue(b, si)), si, getValue(b, fi)),
          iterators |-> <<fi, si>>, ret |-> TRUE]
    ELSE IF exists(b, fi) /\ ~exists(b, si)
    THEN hmSwapMoved(put(remove(b, fi, TRUE), second), getValue(b, fi), TRUE)
    ELSE IF ~exists(b, fi) /\ exists(b, si)
    THEN hmSwapMoved(put(remove(b, si, TRUE), first), getValue(b, si), FALSE)
    ELSE [b |-> b, iterators |-> <<fi, si>>, ret |-> FALSE]

\* variant: a migration leaves the entry it moves the value from
hmSwapAt_copy(b, first, second, swap, fi, si) ==
    IF fi = si
    THEN [b |-> b, iterators |-> <<fi, si>>, ret |-> exists(b, fi)]
    ELSE IF exists(b, fi) /\ exists(b, si) /\ swap
    THEN [b |-> setValue(setValue(b, fi, getValue(b, si)), si, getValue(b, fi)),
          iterators |-> <<fi, si>>, ret |-> TRUE]
    ELSE IF exists(b, fi) /\ ~exists(b, si)
    THEN hmSwapMoved(put(b, second), getValue(b, fi), TRUE)
    ELSE IF ~exists(b, fi) /\ exists(b, si)
    THEN hmSwapMoved(put(b, first), getValue(b, si), FALSE)
    ELSE [b |-> b, iterators |-> <<fi, si>>, ret |-> FALSE]

\* lines 504-537, fi and si the iterators of the two keys
hmSwapAt(b, first, second, swap, fi, si) ==
    IF fi = si
    THEN [b |-> b, iterators |-> <<fi, si>>, ret |-> exists(b, fi)]
    ELSE IF exists(b, fi) /\ exists(b, si) /\ swap
    THEN [b |-> setValue(setValue(b, fi, getValue(b, si)), si, getValue(b, fi)),
          iterators |-> <<fi, si>>, ret |-> TRUE]
    ELSE IF exists(b, fi) /\ ~exists(b, si)
    THEN hmSwapMoved(put(remove(b, fi, TRUE), second), getValue(b, fi), TRUE)
    ELSE IF ~exists(b, fi) /\ exists(b, si)
    THEN hmSwapMoved(put(remove(b, si, TRUE), first), getValue(b, si), FALSE)
    ELSE [b |-> b, iterators |-> <<fi, si>>, ret |-> FALSE]

\* hmSwap(first, second, iterators, swap): [b, iterators, ret]
hmSwap(b, first, second, swap) ==
    IF ~ISMAP THEN [b |-> b, iterators |-> <<end(b), end(b)>>, ret |-> FALSE]
    ELSE hmSwapAt(b, first, second, swap, get(b, first),
                  IF first # second THEN get(b, second) ELSE get(b, first))

\* variant: a return code other than 0 and 1 keeps the entry and goes on
RECURSIVE iterateFrom_noStop(_, _, _, _)
iterateFrom_noStop(b, fn, k, visited) ==
    IF ~(k < end(b)) THEN [b |-> b, visited |-> visited]
    ELSE IF ~exists(b, k) THEN iterateFrom_noStop(b, fn, k + 1, visited)
    ELSE LET ret == fn[getKey(b, k)]
         IN IF ret = 1
            THEN iterateFrom_noStop(remove(b, k, FALSE), fn, k + 1, Append(visited, k))
            ELSE iterateFrom_noStop(b, fn, k + 1, Append(visited, k))

\* variant: the slot after a removed entry is stepped over
RECURSIVE iterateFrom_skip(_, _, _, _)
iterateFrom_skip(b, fn, k, visited) ==
    IF ~(k < end(b)) THEN [b |-> b, visited |-> visited]
    ELSE IF ~exists(b, k) THEN iterateFrom_skip(b, fn, k + 1, visited)
    ELSE LET ret == fn[getKey(b, k)]
         IN IF ret = 0 THEN iterateFrom_skip(b, fn, k + 1, Append(visited, k))
            ELSE IF ret = 1
            THEN iterateFrom_skip(remove(b, k, FALSE), fn, k + 2, Append(visited, k))
            ELSE [b |-> b, visited |-> Append(visited, k)]

\* iterate(fn, arg): fn is the callback's return code for the key at the index;
\* [b, visited], visited the indexes the callback was called with, in order.
\* st = [b, visited, stopped] is the loop's state: the table, the calls made,
\* and whether the loop has been left through break.

\* variant: the entry is removed with the default of remove, shrink enabled
iterateCode_shrink(st, k, ret) ==
    IF ret = 0 THEN [st EXCEPT !.visited = Append(@, k)]
    ELSE IF ret = 1
    THEN [st EXCEPT !.b = remove(@, k, TRUE), !.visited = Append(@, k)]
    ELSE [st EXCEPT !.visited = Append(@, k), !.stopped = TRUE]

\* lines 754-761: what the loop does with the callback's return code at slot k
iterateCode(st, k, ret) ==
    IF ret = 0 THEN [st EXCEPT !.visited = Append(@, k)]
    ELSE IF ret = 1
    THEN [st EXCEPT !.b = remove(@, k, FALSE), !.visited = Append(@, k)]
    ELSE [st EXCEPT !.visited = Append(@, k), !.stopped = TRUE]

\* lines 749-753: one pass of the loop body, at slot k of the table as it is
iterateAt(st, fn, k) ==
    IF ~(k < end(st.b)) \/ ~exists(st.b, k) THEN st
    ELSE iterateCode(st, k, fn[getKey(st.b, k)])

\* the passes for k = lo .. hi - 1, in that order, up to the break; the range
\* is split in two so that a table of 8 * 4096 slots can be walked
RECURSIVE iterateRange(_, _, _, _)
iterateRange(st, fn, lo, hi) ==
    IF lo >= hi \/ st.stopped THEN st
    ELSE IF hi = lo + 1 THEN iterateAt(st, fn, lo)
    ELSE iterateRange(iterateRange(st, fn, lo, (lo + hi) \div 2), fn,
                      (lo + hi) \div 2, hi)

\* the loop from slot k on.  No call the loop makes grows the table, so end()
\* during the loop is at most end() at its start, and every pass tests k
\* against end() as it is then.
iterateDone(st) == [b |-> st.b, visited |-> st.visited]
iterateFrom(b, fn, k, visited) ==
    iterateDone(iterateRange([b |-> b, visited |-> visited, stopped |-> FALSE],
                             fn, k, end(b)))

iterate(b, fn) == iterateFrom(b, fn, begin(b), <<>>)

(* ---- the driver ---- *)
\* The caller works with the active keys freely.  The filler keys it loads in
\* bulk: in index order, each with its own value, and nothing else is called
\* until the load is complete; a load starts on a table with no slot occupied,
\* and the filler keys leave the table through iterate and clear.
FillVal(k) == (k % NumVals) + 1
Loaded(b) == {b.entries[x].key : x \in {y \in DOMAIN b.flags : b.flags[y] = 0}} \cap Fill
FirstFill(n) == (NumActive + 1)..(NumActive + n)
Loading(b) == \E n \in 1..(NumFill - 1) : Loaded(b) = FirstFill(n)
NextFill(b) == NumActive + Cardinality(Loaded(b)) + 1
MayLoad(b) ==
    LET ld == Loaded(b)
    IN /\ NextFill(b) \in Fill
       /\ ld = FirstFill(Cardinality(ld))
       /\ ld = {} => b.occupied = 0
\* the iterators the caller removes by: those get() gives it for the active
\* keys (end() for an absent key) and begin()
Iterators(b) == {get(b, k) : k \in Active} \cup {begin(b)}
ResizeArgs == {0, MIN_CAPACITY, MaxResize}
\* callbacks: a return code for every active key; the filler keys are all kept
\* (0), all deleted (1), or those of odd index deleted (2); a callback that
\* stops keeps the filler keys
FillCode(f, k) == IF f = 2 THEN (k - NumActive) % 2 ELSE f
Callbacks ==
    {[k \in Keys |-> IF k \in Active THEN c[1][k] ELSE FillCode(c[2], k)] :
        c \in {d \in [Active -> {0, 1, 2}] \X {0, 1, 2} :
                 d[2] = 0 \/ \A a \in Active : d[1][a] # 2}}

\* The bytes of a slot that is not Live are dead: get, put, resize, remove and
\* iterate read entries[x] only after a flag test has shown x Live.  The state
\* keeps the Live slots' bytes and forgets the dead ones; the value of a key
\* that a bare put() inserted, which the code leaves as it finds it, reads NoVal.
LiveOf(b) == {x \in DOMAIN b.flags : b.flags[x] = 0}
Live(b) ==
    [b EXCEPT !.entries = [x \in DOMAIN b.entries |->
                              IF b.flags[x] = 0 THEN b.entries[x] ELSE Uninit]]

\* expected[k]: the value of the last hmPut(k, v) that returned true and the
\* slot it claimed, while no call since has itself removed, replaced, swapped
\* or cleared k; NoPut otherwise
NoPut == [val |-> NoVal, it |-> 0]
Forget(ks) == [k \in Keys |-> IF k \in ks THEN NoPut ELSE expected[k]]

\* probe: a probe walk over a table of probe.capacity slots, taken by itself:
\* where it started, the slot it is at, the steps made and the slots seen;
\* the operations of the table leave it
NoProbe == [capacity |-> 0, start |-> 0, index |-> 0, step |-> 0, seen |-> {}]

\* The authentication hub.  waitlist: Khash<origin, Authenticator *>, nullptr
\* the value 0; message: the message the hub routed last, as its handler left
\* it; lockedOut[o]: whether a request of origin o has failed since the
\* hub last stopped its connection, and which
nullptr == 0
NoMessage == [origin |-> 0, request |-> "none", status |-> 0]
Origins == 1..NumOrigins
InitHub ==
    /\ waitlist = Khash
    /\ message = NoMessage
    /\ lockedOut = [o \in Origins |-> "no"]

\* inserted: whether a put() has claimed a slot since the construction.  The
\* calls that claim none leave it: remove, resize, iterate and clear call no
\* put, and hmSwap calls put only after get has found one of the keys present.

Init ==
    /\ ISMAP \in BOOLEAN
    /\ bucket = Khash
    /\ expected = [k \in Keys |-> NoPut]
    /\ inserted = FALSE
    /\ probe = NoProbe
    /\ InitHub

Put(key) ==
    /\ bucket' = Live(put(bucket, key).b)
    /\ inserted' = (inserted \/ put(bucket, key).ret # 0)
    /\ UNCHANGED <<hubVars, ISMAP, probe, expected>>

\* r is what hmPut returned
HmPutDone(key, val, r) ==
    /\ bucket' = Live(r.b)
    /\ expected' = IF r.ret
                   THEN [expected EXCEPT ![key] = [val |-> val, it |-> get(r.b, key)]]
                   ELSE expected
    /\ inserted' = (inserted \/ r.ret)
    /\ UNCHANGED <<hubVars, ISMAP, probe>>

HmPut(key, val) == HmPutDone(key, val, hmPut(bucket, key, val))

HmReplace(key, val, old) ==
    /\ bucket' = Live(hmReplace(bucket, key, val, old).b)
    /\ expected' = Forget({key})
    /\ inserted' = (inserted \/ (ISMAP /\ ~hmReplace(bucket, key, val, old).ret))
    /\ UNCHANGED <<hubVars, ISMAP, probe>>

HsPut(key) ==
    /\ bucket' = Live(hsPut(bucket, key).b)
    /\ inserted' = (inserted \/ hsPut(bucket, key).ret)
    /\ UNCHANGED <<hubVars, ISMAP, probe, expected>>

HmSwap(first, second, swap) ==
    /\ bucket' = Live(hmSwap(bucket, first, second, swap).b)
    /\ expected' = Forget({first, second})
    /\ UNCHANGED <<hubVars, ISMAP, probe, inserted>>

RemoveKey(key) ==
    /\ bucket' = Live(removeKey(bucket, key).b)
    /\ expected' = Forget({key})
    /\ UNCHANGED <<hubVars, ISMAP, probe, inserted>>

Remove(x, shrink) ==
    /\ bucket' = Live(remove(bucket, x, shrink))
    /\ expected' = IF exists(bucket, x) THEN Forget({getKey(bucket, x)}) ELSE expected
    /\ UNCHANGED <<hubVars, ISMAP, probe, inserted>>

Resize(n) ==
    /\ bucket' = Live(resize(bucket, n))
    /\ UNCHANGED <<hubVars, ISMAP, probe, expected, inserted>>

\* r is what iterate left
IterateDone(r) ==
    /\ bucket' = Live(r.b)
    /\ expected' = Forget({k \in Keys : contains(bucket, k) /\ ~contains(r.b, k)})
    /\ UNCHANGED <<hubVars, ISMAP, probe, inserted>>

Iterate(fn) == IterateDone(iterate(bucket, fn))

Clear ==
    /\ bucket' = Live(clear(bucket))
    /\ expected' = Forget(Keys)
    /\ UNCHANGED <<hubVars, ISMAP, probe, inserted>>

\* the next filler key goes in: hmPut into a map, hsPut into a set
Load ==
    /\ MayLoad(bucket)
    /\ LET k == NextFill(bucket)
       IN IF ISMAP THEN HmPut(k, FillVal(k)) ELSE HsPut(k)

\* the calls other than resize()
WorkAuto ==
    \/ \E k \in Active : Put(k)
    \/ \E k \in Active, v \in Vals : HmPut(k, v)
    \/ \E k \in Active, v \in Vals : HmReplace(k, v, NoVal)
    \/ \E k \in Active : HsPut(k)
    \/ \E a \in Active, c \in Active, swap \in BOOLEAN : HmSwap(a, c, swap)
    \/ \E k \in Active : RemoveKey(k)
    \/ \E x \in Iterators(bucket), shrink \in BOOLEAN :
          /\ exists(bucket, x) => getKey(bucket, x) \in Active
          /\ Remove(x, shrink)
    \/ \E fn \in Callbacks : Iterate(fn)
    \/ Clear

Work ==
    \/ WorkAuto
    \/ \E n \in ResizeArgs : Resize(n)

Next ==
    \/ Load
    \/ ~Loading(bucket) /\ Work

Spec == Init /\ [][Next]_vars

(* ---- no explicit resize: the capacity is left to put and remove ---- *)
NextAuto ==
    \/ Load
    \/ ~Loading(bucket) /\ WorkAuto

SpecAuto == Init /\ [][NextAuto]_vars

(* ---- insertions only: the growth of a never-used table ---- *)
\* every call inserts a key that is not in the table: the filler keys in index
\* order, the active keys at any time
Insert ==
    \E k \in Active \cup ({NextFill(bucket)} \cap Fill), v \in Vals :
        /\ ~contains(bucket, k)
        /\ k \in Fill => v = FillVal(k)
        /\ IF ISMAP THEN HmPut(k, v) ELSE HsPut(k)

InsertBare == \E k \in Active : ~contains(bucket, k) /\ Put(k)

NextGrow == Insert \/ InsertBare

SpecGrow == Init /\ [][NextGrow]_vars

(* ---- churn: insertions and removals that keep the table small ---- *)
\* the most entries for which put finds a table of MIN_CAPACITY slots more than
\* twice its size: 7
MaxChurn == (MIN_CAPACITY - 1) \div 2
\* put, hmPut, hmReplace, remove and removeKey from the empty table on, as long
\* as a call leaves MaxChurn entries or fewer.  The caller works through the
\* keys in a circle: the keys in the table are a run of the circle, a call
\* that adds a key adds the one after the run, a call that takes one takes the
\* first of the run; hmPut and hmReplace are also called for the keys of the run
Run(a, n) == {((a - 1 + i) % Cardinality(Keys)) + 1 : i \in 0..(n - 1)}
Stored(b) == {b.entries[x].key : x \in LiveOf(b)}
\* the first key of the run, and the key after the run
Oldest(b) == CHOOSE a \in Keys : Stored(b) = Run(a, b.size)
Newest(b) == ((Oldest(b) - 1 + b.size) % Cardinality(Keys)) + 1
MayAdd(b, k) == (k \in Stored(b) \/ k = Newest(b)) /\ b.size < MaxChurn
\* b is the table a call left; what earlier calls returned is not followed here
Churn(b) ==
    /\ bucket' = Live(b)
    /\ UNCHANGED <<hubVars, ISMAP, probe, expected, inserted>>
ChurnPut == \E k \in Active : MayAdd(bucket, k) /\ Churn(put(bucket, k).b)
ChurnHmPut ==
    \E k \in Keys : MayAdd(bucket, k) /\ Churn(hmPut(bucket, k, FillVal(k)).b)
ChurnHmReplace ==
    \E k \in Keys :
        MayAdd(bucket, k) /\ Churn(hmReplace(bucket, k, FillVal(k), NoVal).b)
ChurnHsPut == \E k \in Keys : MayAdd(bucket, k) /\ Churn(hsPut(bucket, k).b)
ChurnRemove ==
    \E shrink \in BOOLEAN :
        bucket.size > 0 /\ Churn(remove(bucket, get(bucket, Oldest(bucket)), shrink))
ChurnRemoveKey ==
    bucket.size > 0 /\ Churn(removeKey(bucket, Oldest(bucket)).b)
NextChurn ==
    \/ ChurnPut
    \/ ChurnHmPut
    \/ ChurnHmReplace
    \/ ChurnHsPut
    \/ ChurnRemove
    \/ ChurnRemoveKey

SpecChurn == Init /\ [][NextChurn]_vars

(* ---- the probe walk of get, put and resize, taken by itself ---- *)
\* index = linearProbe(index, ++step, mask), from every start of a table of
\* 16, 32 or 64 slots, for as many steps as the table has slots
ProbeCapacities == {MIN_CAPACITY, 2 * MIN_CAPACITY, 4 * MIN_CAPACITY}
InitProbe ==
    /\ ISMAP = TRUE
    /\ bucket = Khash
    /\ expected = [k \in Keys |-> NoPut]
    /\ inserted = FALSE
    /\ InitHub
    /\ \E c \in ProbeCapacities : \E h0 \in 0..(c - 1) :
          probe = [capacity |-> c, start |-> h0, index |-> h0, step |-> 0, seen |-> {h0}]

ProbeStep ==
    /\ probe.step < probe.capacity
    /\ probe' = [probe EXCEPT
                   !.index = linearProbe(@, probe.step + 1, probe.capacity - 1),
                   !.step = @ + 1,
                   !.seen = @ \cup {linearProbe(probe.index, probe.step + 1,
                                                probe.capacity - 1)}]
    /\ UNCHANGED <<hubVars, ISMAP, bucket, expected, inserted>>

NextProbe == ProbeStep

SpecProbe == InitProbe /\ [][NextProbe]_vars

(* ---- the authentication hub: AuthenticationHub.cpp ---- *)
\* the status of a request and of the two answers (AQLF=0/1/127)
WH_AQLF_REQUEST == 0
WH_AQLF_ACCEPTED == 1
WH_AQLF_REJECTED == 127
\* a pointer to an Authenticator that new returned
Authenticator == 1

\* What a handler leaves: the waitlist, the status of the message, and whether
\* the handler took its failure branch.
handleInvalidRequest(w) ==
    [waitlist |-> w, status |-> WH_AQLF_REJECTED, failed |-> FALSE]

\* generated: salt and nonce are there and fit the payload
generateIdentificationResponse(w, generated) ==
    IF generated
    THEN [waitlist |-> w, status |-> WH_AQLF_ACCEPTED, failed |-> FALSE]
    ELSE handleInvalidRequest(w)

\* the failure branch of lines 123-144; w is the waitlist after the attempt
identificationFailed(w, origin, salted, generated) ==
    [waitlist |-> hmPut(w, origin, nullptr).b,
     status |-> IF salted THEN generateIdentificationResponse(w, generated).status
                ELSE WH_AQLF_REJECTED,
     failed |-> TRUE]

\* nonce: the length of the payload; loaded: the identity is not banned, new
\* returned an Authenticator and loadIdentity filled it; salted: the hub is
\* configured with a salt
handleIdentificationRequest(w, origin, nonce, loaded, salted, generated) ==
    IF nonce = 0 \/ contains(w, origin)
    THEN handleInvalidRequest(w)
    ELSE IF loaded /\ hmPut(w, origin, Authenticator).ret
    THEN generateIdentificationResponse(hmPut(w, origin, Authenticator).b, generated)
    ELSE identificationFailed(IF loaded THEN hmPut(w, origin, Authenticator).b ELSE w,
                              origin, salted, generated)

\* variant: a rejected proof leaves the authenticator in the waitlist
handleAuthenticationRequest_keep(w, origin, proved) ==
    IF ~hmGet(w, origin).ret \/ hmGet(w, origin).val = nullptr
    THEN handleInvalidRequest(w)
    ELSE IF proved
    THEN [waitlist |-> w, status |-> WH_AQLF_ACCEPTED, failed |-> FALSE]
    ELSE [waitlist |-> w, status |-> WH_AQLF_REJECTED, failed |-> TRUE]

\* proved: the authenticator accepted the proof and made the proof of the host
handleAuthenticationRequest(w, origin, proved) ==
    IF ~hmGet(w, origin).ret \/ hmGet(w, origin).val = nullptr
    THEN handleInvalidRequest(w)
    ELSE IF proved
    THEN [waitlist |-> w, status |-> WH_AQLF_ACCEPTED, failed |-> FALSE]
    ELSE [waitlist |-> hmReplace(w, origin, nullptr, hmGet(w, origin).val).b,
          status |-> WH_AQLF_REJECTED, failed |-> TRUE]

\* authenticated: what isAuthenticated() of the authenticator returns; signed:
\* what message->sign() returns
handleAuthorizationRequest(w, origin, authenticated, signed) ==
    IF hmGet(w, origin).val = nullptr \/ ~authenticated
    THEN handleInvalidRequest(w)
    ELSE IF signed
    THEN [waitlist |-> w, status |-> WH_AQLF_REQUEST, failed |-> FALSE]
    ELSE handleInvalidRequest(w)

\* stop(w): the entry of the connection, if there is one, is removed
stop(w, uid) ==
    IF get(w, uid) # end(w) THEN remove(w, get(w, uid), TRUE) ELSE w

\* r is what the handler of the request left
Routed(origin, request, cause, r) ==
    /\ waitlist' = Live(r.waitlist)
    /\ message' = [origin |-> origin, request |-> request, status |-> r.status]
    /\ lockedOut' = IF r.failed THEN [lockedOut EXCEPT ![origin] = cause]
                    ELSE lockedOut
    /\ UNCHANGED tableVars

HandleIdentificationRequest ==
    \E origin \in Origins, nonce \in 0..1, loaded \in BOOLEAN, salted \in BOOLEAN,
       generated \in BOOLEAN :
        Routed(origin, "identification", "identification",
               handleIdentificationRequest(waitlist, origin, nonce, loaded, salted,
                                           generated))

HandleAuthenticationRequest ==
    \E origin \in Origins, proved \in BOOLEAN :
        Routed(origin, "authentication", "proof",
               handleAuthenticationRequest(waitlist, origin, proved))

HandleAuthorizationRequest ==
    \E origin \in Origins, authenticated \in BOOLEAN, signed \in BOOLEAN :
        Routed(origin, "authorization", "no",
               handleAuthorizationRequest(waitlist, origin, authenticated, signed))

Stop ==
    \E uid \in Origins :
        /\ waitlist' = Live(stop(waitlist, uid))
        /\ message' = NoMessage
        /\ lockedOut' = [lockedOut EXCEPT ![uid] = "no"]
        /\ UNCHANGED tableVars

InitAuth ==
    /\ ISMAP = TRUE
    /\ bucket = Khash
    /\ expected = [k \in Keys |-> NoPut]
    /\ inserted = FALSE
    /\ probe = NoProbe
    /\ InitHub

NextAuth ==
    \/ HandleIdentificationRequest
    \/ HandleAuthenticationRequest
    \/ HandleAuthorizationRequest
    \/ Stop

SpecAuth == InitAuth /\ [][NextAuth]_vars

(* ---- a large table: the shrink of remove ---- *)
\* The caller reserves 8 * 4096 slots and loads the keys of Bulk: hmPut into
\* a map, hsPut into a set, the keys lo .. hi in index order.
RECURSIVE bulkPut(_, _, _)
bulkPut(b, lo, hi) ==
    IF lo > hi \/ b.capacity = 0 THEN b
    ELSE IF lo = hi
    THEN IF ISMAP THEN hmPut(b, lo, FillVal(lo)).b ELSE hsPut(b, lo).b
    ELSE bulkPut(bulkPut(b, lo, (lo + hi) \div 2), (lo + hi) \div 2 + 1, hi)

LargeCapacity == 8 * SHRINK_THRESHOLD
LargeTable(b) ==
    bulkPut(resize(b, LargeCapacity), NumActive + NumFill + 1,
            NumActive + NumFill + SHRINK_THRESHOLD + Spare)
\* the same keys in a table of 2 * 4096 slots, which they fill by more than a
\* quarter
DenseCapacity == 2 * SHRINK_THRESHOLD
DenseTable(b) ==
    bulkPut(resize(b, DenseCapacity), NumActive + NumFill + 1,
            NumActive + NumFill + SHRINK_THRESHOLD + Spare)
\* 4096 + 1 keys in 8 * 4096 slots: a removal leaves 4096
EdgeTable(b) ==
    bulkPut(resize(b, LargeCapacity), NumActive + NumFill + 1,
            NumActive + NumFill + SHRINK_THRESHOLD + 1)
\* the keys the caller then removes
Victims == (NumActive + NumFill + 1)..(NumActive + NumFill + Spare)

(* ---- the claims ---- *)
Present(b) == {k \in Keys : contains(b, k)}
Tombstones(b) == b.occupied - b.size
MustResize(b) == b.occupied >= b.upperBound

\* C1: once hmPut(k, v) has returned true, hmGet(k) returns true with v for as
\* long as no call itself removes, replaces, swaps or clears k, whatever else
\* is called: puts and removes of other keys, rehashes at the same capacity,
\* growth, shrinking and explicit resize calls.
RoundTrip ==
    \A k \in Keys :
        expected[k].val # NoVal
            => hmGet(bucket, k) = [ret |-> TRUE, val |-> expected[k].val]

\* a key put earlier has since been moved to another slot by a rehash
RoundTripMoved ==
    \E k \in Keys :
        /\ expected[k].val # NoVal
        /\ get(bucket, k) # expected[k].it
        /\ hmGet(bucket, k).val = expected[k].val

\* C2: removeKey(k) returns true exactly when k was present; afterwards
\* contains(k) is false, get(k) = end() and size is one less; when k was absent
\* it returns false and size is unchanged.
RemoveKeyContract ==
    \A k \in Keys :
        LET r == removeKey(bucket, k)
        IN /\ r.ret <=> contains(bucket, k)
           /\ ~contains(r.b, k)
           /\ get(r.b, k) = end(r.b)
           /\ r.b.size = bucket.size - (IF contains(bucket, k) THEN 1 ELSE 0)

RemoveKeyBothCases ==
    \E k \in Keys, j \in Keys :
        /\ contains(bucket, k) /\ removeKey(bucket, k).ret
        /\ removeKey(bucket, k).b.size = bucket.size - 1
        /\ ~contains(bucket, j) /\ ~removeKey(bucket, j).ret
        /\ Tombstones(bucket) > 0

\* C3: hmPut(k, v) on a key that is present returns false; hmGet(k) still
\* yields the value stored before, size is unchanged and every other key keeps
\* its value.
HmPutDuplicate ==
    \A k \in Keys, v \in Vals :
        contains(bucket, k) =>
            LET r == hmPut(bucket, k, v)
            IN /\ ~r.ret
               /\ r.b.size = bucket.size
               /\ \A j \in Keys : hmGet(r.b, j) = hmGet(bucket, j)

\* a failed hmPut of another value, on a map that rehashes on the way
HmPutDuplicateRehashed ==
    /\ ISMAP
    /\ MustResize(bucket)
    /\ \E k \in Keys, v \in Vals :
          /\ contains(bucket, k)
          /\ hmGet(bucket, k).val # v
          /\ ~hmPut(bucket, k, v).ret
          /\ hmPut(bucket, k, v).b # bucket

\* C4 as stated: a failed hmPut changes nothing in the table, also when
\* occupied = upperBound.
FailedPutMutatesNothing ==
    \A k \in Keys, v \in Vals :
        (ISMAP /\ contains(bucket, k)) =>
            (~hmPut(bucket, k, v).ret /\ Live(hmPut(bucket, k, v).b) = bucket)

\* C4 amended: a failed hmPut entered with occupied < upperBound changes
\* nothing in the table: capacity, occupied, upperBound, every slot's state and
\* every live entry's slot are as before.  Entered with occupied >= upperBound
\* it rehashes first (at the same capacity when capacity > 2 * size, at twice
\* the capacity otherwise): size and every key's value are as before, the
\* tombstones are gone.
FailedPutFrame ==
    \A k \in Keys, v \in Vals :
        (ISMAP /\ contains(bucket, k)) =>
            LET r == hmPut(bucket, k, v)
            IN /\ ~r.ret
               /\ ~MustResize(bucket) => r.b = bucket
               /\ MustResize(bucket) =>
                    /\ r.b.capacity = IF bucket.capacity > 2 * bucket.size
                                      THEN bucket.capacity ELSE 2 * bucket.capacity
                    /\ r.b.size = bucket.size
                    /\ r.b.occupied = bucket.size
                    /\ \A j \in Keys : hmGet(r.b, j) = hmGet(bucket, j)

\* a failed hmPut one short of the bound, on a table with tombstones
FailedPutBelowBound ==
    /\ ISMAP
    /\ bucket.occupied + 1 = bucket.upperBound
    /\ Tombstones(bucket) > 0
    /\ \E k \in Keys, v \in Vals :
          contains(bucket, k) /\ ~hmPut(bucket, k, v).ret

\* C5: hmReplace(k, v, old): if k was present it returns true, old holds the
\* value k had and size is unchanged; if k was absent it returns false, old is
\* untouched and size grows by one; either way hmGet(k) then returns v.
HmReplaceContract ==
    ISMAP =>
        \A k \in Keys, v \in Vals, old \in Vals :
            LET r == hmReplace(bucket, k, v, old)
            IN /\ hmGet(r.b, k) = [ret |-> TRUE, val |-> v]
               /\ IF contains(bucket, k)
                  THEN /\ r.ret
                       /\ r.oldVal = hmGet(bucket, k).val
                       /\ r.b.size = bucket.size
                  ELSE /\ ~r.ret
                       /\ r.oldVal = old
                       /\ r.b.size = bucket.size + 1

\* both cases in one state: a present key whose value differs from the new one
\* and from the caller's old, and an absent key
HmReplaceBothCases ==
    /\ ISMAP
    /\ \E k \in Keys, j \in Keys, v \in Vals, old \in Vals :
          /\ contains(bucket, k)
          /\ hmGet(bucket, k).val \in Vals \ {v, old}
          /\ hmReplace(bucket, k, v, old).oldVal = hmGet(bucket, k).val
          /\ ~contains(bucket, j)
          /\ ~hmReplace(bucket, j, v, old).ret
          /\ Tombstones(bucket) > 0

\* C6: hsPut returns true exactly when the key was not present, and then size
\* grows by one and contains(key) holds; when the key was present it returns
\* false and size is unchanged.
HsPutContract ==
    ~ISMAP =>
        \A k \in Keys :
            LET r == hsPut(bucket, k)
            IN /\ r.ret <=> ~contains(bucket, k)
               /\ contains(r.b, k)
               /\ r.b.size = bucket.size + (IF contains(bucket, k) THEN 0 ELSE 1)

\* a set in which one key is added again and another takes a tombstone
HsPutBothCases ==
    /\ ~ISMAP
    /\ \E k \in Keys, j \in Keys :
          /\ contains(bucket, k) /\ ~hsPut(bucket, k).ret
          /\ ~contains(bucket, j) /\ hsPut(bucket, j).ret
          /\ put(bucket, j).ret = 2

\* C7: after every public mutating operation, applied in any order from an
\* empty table, occupied <= upperBound and size <= occupied.
OccupiedBounded ==
    /\ bucket.occupied <= bucket.upperBound
    /\ bucket.size <= bucket.occupied

\* a table filled to its bound, tombstones included
OccupiedAtBound ==
    /\ bucket.capacity > 0
    /\ bucket.occupied = bucket.upperBound
    /\ bucket.size < bucket.occupied

\* C8: capacity is 0 (never-used table) or a power of two >= 16, and
\* upperBound = floor(capacity * 0.77 + 0.5): 0 for capacity 0, 12 for 16,
\* 25 for 32, 49 for 64.
IsPower2(n) == \E e \in 0..n : 2 ^ e = n
BoundTable == (0 :> 0) @@ (16 :> 12) @@ (32 :> 25) @@ (64 :> 49)
CapacityShape ==
    /\ bucket.capacity = 0 \/ (bucket.capacity >= 16 /\ IsPower2(bucket.capacity))
    /\ bucket.capacity \in DOMAIN BoundTable
    /\ bucket.upperBound = BoundTable[bucket.capacity]
    /\ DOMAIN bucket.flags = 0..(bucket.capacity - 1)

\* a table that has grown past the minimum capacity and holds entries
CapacityGrown ==
    /\ bucket.capacity = 2 * MIN_CAPACITY
    /\ bucket.upperBound = 25
    /\ bucket.size > 12

\* C9: on a never-used table the first insertion sets capacity to 16
\* (upperBound 12); with no removals capacity stays 16 through the 12th
\* distinct insertion; the 13th distinct insertion grows it to 32, and after
\* the growth every inserted key is still found by get, with its value.
GrowthTrigger ==
    /\ bucket.size = 0 => bucket.capacity = 0
    /\ bucket.size \in 1..12 => (bucket.capacity = 16 /\ bucket.upperBound = 12)
    /\ bucket.size >= 13 => bucket.capacity = 32
    /\ Cardinality(Present(bucket)) = bucket.size
    /\ \A k \in Present(bucket) : get(bucket, k) # end(bucket)
    /\ RoundTrip

\* thirteen keys in a table of capacity 32, one of them at another slot than
\* the one its hmPut claimed
GrowthTriggered ==
    /\ bucket.size = 13
    /\ bucket.capacity = 32
    /\ RoundTripMoved

\* the probe path of put(key): the slots from the key's initial slot up to,
\* not including, the first Empty slot (or back at the initial slot)
RECURSIVE PathFrom(_, _, _, _, _)
PathFrom(b, i, step, start, path) ==
    IF isEmpty(b.flags, i) THEN path
    ELSE LET n == linearProbe(i, step + 1, b.capacity - 1)
         IN IF n = start THEN Append(path, i)
            ELSE PathFrom(b, n, step + 1, start, Append(path, i))
Path(b, key) ==
    LET start == hash(key) % b.capacity
    IN PathFrom(b, start, 0, start, <<>>)
DeletedOn(b, key) ==
    {n \in DOMAIN Path(b, key) : isDeleted(b.flags, Path(b, key)[n])}
LastDeleted(b, key) ==
    Path(b, key)[CHOOSE n \in DeletedOn(b, key) : \A m \in DeletedOn(b, key) : m <= n]

\* put(A), remove of A's slot, put(B), for absent keys A and B with the same
\* initial slot and one capacity throughout
Reuse(A, B, shrink) ==
    LET r1 == put(bucket, A)
        b2 == remove(r1.b, r1.index, shrink)
        r3 == put(b2, B)
    IN [applies |-> /\ A # B /\ ~contains(bucket, A) /\ ~contains(bucket, B)
                    /\ r1.b.capacity = b2.capacity /\ b2.capacity = r3.b.capacity
                    /\ hash(A) % b2.capacity = hash(B) % b2.capacity,
        slotA |-> r1.index, before |-> b2, index |-> r3.index, ret |-> r3.ret,
        after |-> r3.b]

\* C10 as stated: put(B) returns the slot A vacated with insertion kind 2,
\* occupied as before put(B) and size one larger.
TombstoneReuse ==
    \A A \in Keys, B \in Keys, shrink \in BOOLEAN :
        LET u == Reuse(A, B, shrink)
        IN u.applies =>
            /\ u.index = u.slotA
            /\ u.ret = 2
            /\ u.after.occupied = u.before.occupied
            /\ u.after.size = u.before.size + 1

\* C10 amended: when put(B) is entered with occupied < upperBound it returns
\* insertion kind 2 at the last Deleted slot on B's probe path before the
\* first Empty slot, which is the slot A vacated unless another Deleted slot
\* follows it on the path; occupied is as before put(B) and size one larger.
\* Entered with occupied >= upperBound, put(B) rehashes first and claims an
\* Empty slot (kind 1) of a table without tombstones.
TombstoneReuseLast ==
    \A A \in Keys, B \in Keys, shrink \in BOOLEAN :
        LET u == Reuse(A, B, shrink)
        IN u.applies =>
            /\ u.after.size = u.before.size + 1
            /\ contains(u.after, B)
            /\ ~MustResize(u.before) =>
                 /\ u.ret = 2
                 /\ u.slotA \in {Path(u.before, B)[n] : n \in DeletedOn(u.before, B)}
                 /\ u.index = LastDeleted(u.before, B)
                 /\ u.after.occupied = u.before.occupied
            /\ MustResize(u.before) =>
                 /\ u.ret = 1
                 /\ u.after.occupied = u.after.size

\* B takes a tombstone behind the slot A vacated
TombstoneReuseBehind ==
    \E A \in Keys, B \in Keys :
        LET u == Reuse(A, B, FALSE)
        IN /\ u.applies
           /\ ~MustResize(u.before)
           /\ u.ret = 2
           /\ u.index # u.slotA

\* remove(x, TRUE) of key k's slot in table b gave r
ShrinkPost(b, k, r) ==
    (contains(b, k) /\ r.size > SHRINK_THRESHOLD /\ r.size < b.capacity \div 4) =>
        /\ r.capacity < b.capacity
        /\ r.size = b.size - 1
        /\ r.occupied = r.size
        /\ \A i \in DOMAIN r.flags : ~isDeleted(r.flags, i)
        /\ ~contains(r, k)
        /\ \A j \in Bulk \ {k} :
              contains(b, j) =>
                  /\ get(r, j) # end(r)
                  /\ ISMAP => hmGet(r, j) = [ret |-> TRUE, val |-> FillVal(j)]

\* the large table, or the large table with key t removed without shrink
Tombstoned(big, t) == IF t \in Victims THEN remove(big, get(big, t), FALSE) ELSE big
ShrinkCase(b, k) == ShrinkPost(b, k, remove(b, get(b, k), TRUE))
ShrinkCases(big) ==
    \A t \in Victims \cup {NoKey}, k \in Victims : ShrinkCase(Tombstoned(big, t), k)

\* C11: when remove(x, TRUE) on a live slot leaves size > 4096 and
\* size < capacity / 4, capacity after the call is strictly smaller than
\* before, every remaining key is still found by get with its value, and
\* occupied = size with no Deleted slot left.  The table is the never-used
\* table after resize(8 * 4096) and the insertion of 4096 + Spare keys, with
\* and without a tombstone.
ShrinkThreshold == bucket.capacity = 0 => ShrinkCases(LargeTable(bucket))

\* a remove with shrink takes the large table b, which holds a tombstone, from
\* 8 * 4096 slots to 2 * 4096
ShrinksFrom(b, k) ==
    /\ b.occupied > b.size
    /\ contains(b, k)
    /\ remove(b, get(b, k), TRUE).size > SHRINK_THRESHOLD
    /\ remove(b, get(b, k), TRUE).capacity = 2 * SHRINK_THRESHOLD
    /\ remove(b, get(b, k), FALSE).capacity = LargeCapacity
ShrinkSome(big) ==
    \E t \in Victims, k \in Victims : ShrinksFrom(Tombstoned(big, t), k)
ShrinkTriggered == ISMAP /\ bucket.capacity = 0 /\ ShrinkSome(LargeTable(bucket))

\* what hmSwap(first, second) leaves when `from` is the key that was present and
\* `to` the one that was absent: r is what the call returned, v the value of
\* `from` before it
Migrated(r, from, to, v) ==
    /\ r.ret
    /\ ~contains(r.b, from)
    /\ get(r.b, to) # end(r.b)
    /\ hmGet(r.b, to) = [ret |-> TRUE, val |-> v]
    /\ end(r.b) = r.b.capacity

\* C12: on a map, when exactly one of two distinct keys is present (x with value
\* v, y absent), hmSwap(x, y) returns true for either swap flag, x is absent
\* afterwards, hmGet(y) returns v, and the iterators are (end(), slot of y);
\* hmSwap(y, x) does the same with the iterators (slot of y, end()); end() is
\* the capacity after the call
HmSwapMigrates ==
    ISMAP =>
        \A x \in Present(bucket), y \in Keys \ Present(bucket), swap \in BOOLEAN :
            LET v == hmGet(bucket, x).val
                r == hmSwap(bucket, x, y, swap)
                q == hmSwap(bucket, y, x, swap)
            IN /\ Migrated(r, x, y, v)
               /\ r.iterators = <<end(r.b), get(r.b, y)>>
               /\ Migrated(q, x, y, v)
               /\ q.iterators = <<get(q.b, y), end(q.b)>>

\* a migration of a key with a value of its own, during which the table grows:
\* end() after the call is not end() before it
HmSwapMigratesGrown ==
    /\ ISMAP
    /\ \E x \in Present(bucket), y \in Keys \ Present(bucket) :
          /\ hmGet(bucket, x).val # NoVal
          /\ hmSwap(bucket, x, y, FALSE).b.capacity > bucket.capacity
          /\ bucket.capacity > 0

\* the table r differs from b at most in the values stored at slots x and z
SameButValues(b, r, x, z) ==
    /\ r.flags = b.flags
    /\ r.size = b.size /\ r.occupied = b.occupied
    /\ r.capacity = b.capacity /\ r.upperBound = b.upperBound
    /\ \A i \in DOMAIN b.entries :
          /\ r.entries[i].key = b.entries[i].key
          /\ i \notin {x, z} => r.entries[i] = b.entries[i]

\* C13: on a map, hmSwap of two distinct keys that are both present returns
\* false and leaves the whole table unchanged when swap is disabled; when swap
\* is enabled it returns true and the two values are exchanged, with no slot
\* state, key, size or capacity change
HmSwapBothPresent ==
    ISMAP =>
        \A x \in Present(bucket) : \A z \in Present(bucket) \ {x} :
            LET off == hmSwap(bucket, x, z, FALSE)
                on == hmSwap(bucket, x, z, TRUE)
            IN /\ ~off.ret /\ off.b = bucket
               /\ off.iterators = <<get(bucket, x), get(bucket, z)>>
               /\ on.ret
               /\ on.iterators = <<get(bucket, x), get(bucket, z)>>
               /\ SameButValues(bucket, on.b, get(bucket, x), get(bucket, z))
               /\ hmGet(on.b, x) = hmGet(bucket, z)
               /\ hmGet(on.b, z) = hmGet(bucket, x)

\* two keys present with different values, among tombstones
HmSwapBothDiffer ==
    /\ ISMAP
    /\ Tombstones(bucket) > 0
    /\ \E x \in Present(bucket) : \E z \in Present(bucket) \ {x} :
          /\ hmGet(bucket, x).val # NoVal /\ hmGet(bucket, z).val # NoVal
          /\ hmGet(bucket, x).val # hmGet(bucket, z).val
          /\ hmSwap(bucket, x, z, TRUE).b # bucket

\* C14: on a map, hmSwap of two distinct keys that are both absent returns
\* false with both iterators equal to end(); hmSwap of a key with itself
\* returns true exactly when the key is present, with both iterators equal to
\* get(key); the table is unchanged in both cases
HmSwapDegenerate ==
    ISMAP =>
        \A swap \in BOOLEAN :
            /\ \A x \in Keys \ Present(bucket), y \in Keys \ Present(bucket) :
                  x # y =>
                      hmSwap(bucket, x, y, swap) =
                          [b |-> bucket, iterators |-> <<end(bucket), end(bucket)>>,
                           ret |-> FALSE]
            /\ \A k \in Keys :
                  hmSwap(bucket, k, k, swap) =
                      [b |-> bucket, iterators |-> <<get(bucket, k), get(bucket, k)>>,
                       ret |-> contains(bucket, k)]

\* a table in use with a key present, at a slot other than 0, and at least two
\* keys absent
HmSwapDegenerateCases ==
    /\ ISMAP
    /\ bucket.capacity > 0
    /\ \E k \in Present(bucket) : get(bucket, k) # 0 /\ hmSwap(bucket, k, k, FALSE).ret
    /\ \E x \in Keys \ Present(bucket), y \in Keys \ Present(bucket) :
          x # y /\ ~hmSwap(bucket, x, y, TRUE).ret

LiveSlots(b) == {i \in DOMAIN b.flags : exists(b, i)}
\* the callbacks that return only 0 (keep) or 1 (remove)
KeepOrRemove == {fn \in Callbacks : \A k \in Keys : fn[k] \in {0, 1}}
Removed(b, fn) == {k \in Present(b) : fn[k] = 1}

\* r is what iterate(fn) left of b
IteratePost(b, fn, r) ==
    /\ Len(r.visited) = Cardinality(LiveSlots(b))
    /\ {r.visited[n] : n \in DOMAIN r.visited} = LiveSlots(b)
    /\ \A n \in DOMAIN r.visited : n > 1 => r.visited[n - 1] < r.visited[n]
    /\ Present(r.b) = Present(b) \ Removed(b, fn)
    /\ \A k \in Present(r.b) :
          /\ get(r.b, k) = get(b, k)
          /\ r.b.entries[get(r.b, k)] = b.entries[get(b, k)]
    /\ r.b.size = b.size - Cardinality(Removed(b, fn))
    /\ r.b.size = Cardinality(LiveSlots(r.b))

\* C15: iterate with a callback that returns only 0 or 1 invokes it exactly
\* once for every slot that was Live when the iteration started, in increasing
\* slot order, and never for a slot that is not Live; afterwards exactly the
\* entries for which it returned 0 are present, and size has dropped by the
\* number of 1-returns
IterateWithDeletion ==
    \A fn \in KeepOrRemove : IteratePost(bucket, fn, iterate(bucket, fn))

\* an iteration over at least three entries among tombstones that removes some
\* and keeps some
IterateRemovesSome ==
    /\ Tombstones(bucket) > 0
    /\ Cardinality(LiveSlots(bucket)) >= 3
    /\ \E fn \in KeepOrRemove :
          /\ Removed(bucket, fn) # {}
          /\ Removed(bucket, fn) # Present(bucket)
          /\ iterate(bucket, fn).b.size = bucket.size - Cardinality(Removed(bucket, fn))

\* what holds of a table b without entries: no key is found and iterate calls
\* no callback
NothingFound(b) ==
    /\ begin(b) = 0
    /\ \A k \in Keys : get(b, k) = end(b) /\ ~contains(b, k)
    /\ \A fn \in Callbacks : iterate(b, fn) = [b |-> b, visited |-> <<>>]

\* C16 as stated: on a table that has never received an insertion,
\* begin() = end() = 0, get(k) = end() and contains(k) is false for every key
\* k, and iterate invokes the callback zero times.
EmptyTableIdentity ==
    ~inserted => (begin(bucket) = end(bucket) /\ end(bucket) = 0 /\ NothingFound(bucket))

\* C16 amended: on a table that has never received an insertion, begin() = 0,
\* get(k) = end() and contains(k) is false for every key k, and iterate invokes
\* the callback zero times; end() is the capacity, which is 0, so that
\* begin() = end() = 0, as long as no resize() has been called either, and the
\* capacity the resize() calls have set otherwise.
EmptyTableNothingFound ==
    ~inserted =>
        /\ NothingFound(bucket)
        /\ end(bucket) = bucket.capacity
        /\ bucket.size = 0
        /\ bucket.capacity = 0 => begin(bucket) = end(bucket)

\* a table sized by resize() that has never received an insertion
EmptyTableSized ==
    /\ ~inserted
    /\ bucket.capacity = 2 * MIN_CAPACITY
    /\ begin(bucket) # end(bucket)
    /\ \A k \in Keys : get(bucket, k) = end(bucket)

\* r has the capacity of b and every entry Live in b, but for the one at slot
\* x, in its slot with its key and value
Stable(b, r, x) ==
    /\ r.capacity = b.capacity
    /\ \A i \in DOMAIN b.flags :
          (i # x /\ exists(b, i)) => (exists(r, i) /\ r.entries[i] = b.entries[i])

NoShrink(b, x, shrink) ==
    \/ ~shrink
    \/ remove(b, x, FALSE).size <= SHRINK_THRESHOLD
    \/ remove(b, x, FALSE).size >= b.capacity \div 4

StablePut(b, key) == ~MustResize(b) => Stable(b, put(b, key).b, put(b, key).index)
StableRemove(b, x, shrink) == NoShrink(b, x, shrink) => Stable(b, remove(b, x, shrink), x)

\* the large tables: a put of a key that is absent (NoKey + 1) or present, a
\* remove without shrink from the sparse table, a remove with shrink from the
\* dense one
StableSparse(big) ==
    /\ big.size > SHRINK_THRESHOLD /\ big.size < big.capacity \div 4
    /\ \A k \in Victims \cup {NoKey + 1} : StablePut(big, k)
    /\ \A k \in Victims : StableRemove(big, get(big, k), FALSE)
StableDense(big) ==
    /\ big.size > SHRINK_THRESHOLD + 1 /\ big.size > big.capacity \div 4
    /\ \A k \in Victims : \A shrink \in BOOLEAN : StableRemove(big, get(big, k), shrink)

\* C17: a put that does not resize (occupied < upperBound on entry) and a
\* remove that does not shrink (shrink disabled, or size <= 4096, or
\* size >= capacity / 4) leave every other Live entry in the same slot with the
\* same key and value, and leave capacity unchanged.  Checked in every state,
\* and from the never-used table on the tables of more than 4096 keys.
IteratorStability ==
    /\ \A key \in Keys : StablePut(bucket, key)
    /\ \A x \in 0..bucket.capacity, shrink \in BOOLEAN : StableRemove(bucket, x, shrink)
    /\ bucket.capacity = 0 =>
          (StableSparse(LargeTable(bucket)) /\ StableDense(DenseTable(bucket)))

\* a table of 32 slots with three entries or more in less than a quarter of
\* them: a put takes a tombstone and a remove with shrink leaves the capacity
IteratorStabilityCases ==
    /\ ~MustResize(bucket)
    /\ bucket.capacity = 2 * MIN_CAPACITY
    /\ bucket.size >= 3 /\ bucket.size < bucket.capacity \div 4
    /\ \E key \in Keys : put(bucket, key).ret = 2 /\ put(bucket, key).b.capacity = bucket.capacity
    /\ \E k \in Present(bucket) :
          remove(bucket, get(bucket, k), TRUE).capacity = bucket.capacity

\* r differs from b at slot x at most
SameButSlot(b, r, x) ==
    /\ r.capacity = b.capacity /\ r.upperBound = b.upperBound
    /\ \A i \in DOMAIN b.flags \ {x} : r.flags[i] = b.flags[i] /\ r.entries[i] = b.entries[i]

\* what put(key) returned as r, against the table b that was before: present
\* is whether it held the key
PutClaim(b, key, r, present) ==
    /\ r.index < r.b.capacity
    /\ exists(r.b, r.index) /\ equal(getKey(r.b, r.index), key)
    /\ r.ret \in {0, 1, 2}
    /\ r.ret = 1 <=> isEmpty(b.flags, r.index)
    /\ r.ret = 1 => (r.b.size = b.size + 1 /\ r.b.occupied = b.occupied + 1)
    /\ r.ret = 2 <=> isDeleted(b.flags, r.index)
    /\ r.ret = 2 => (r.b.size = b.size + 1 /\ r.b.occupied = b.occupied)
    /\ r.ret = 0 <=> present
    /\ r.ret = 0 =>
          /\ r.b.flags = b.flags /\ r.b.size = b.size
          /\ \A i \in DOMAIN b.flags : exists(b, i) => r.b.entries[i] = b.entries[i]

\* C18 as stated: the returned index is < capacity and its slot is Live
\* holding key; ret = 1 exactly when the claimed slot was Empty (size and
\* occupied each grow by one), ret = 2 exactly when it was Deleted (size grows
\* by one, occupied unchanged), ret = 0 exactly when key was already present
\* (no slot state, size or stored value changes): the table before is the one
\* put() is called on, and the calls are those that leave the capacity.
PutPostcondition ==
    \A key \in Keys :
        put(bucket, key).b.capacity = bucket.capacity =>
            PutClaim(bucket, key, put(bucket, key), contains(bucket, key))

\* C18 amended: the postcondition holds against the table as the first step
\* of put leaves it, which is the table put is called on when
\* occupied < upperBound, and then the call writes no other slot.  Called with
\* occupied >= upperBound, put first rehashes (size and the keys present
\* stay, occupied becomes size, no slot stays Deleted), so that ret is 0 or 1,
\* occupied after the call is the size after the call, and slot states change
\* also when ret = 0.
PutPostconditionAfterResize ==
    \A key \in Keys :
        /\ PutClaim(putResize(bucket), key, put(bucket, key), contains(bucket, key))
        /\ SameButSlot(putResize(bucket), put(bucket, key).b, put(bucket, key).index)
        /\ ~MustResize(bucket) => putResize(bucket) = bucket
        /\ MustResize(bucket) =>
              /\ putResize(bucket).size = bucket.size
              /\ Present(putResize(bucket)) = Present(bucket)
              /\ put(bucket, key).ret # 2
              /\ put(bucket, key).b.occupied = put(bucket, key).b.size

\* the three insertion kinds in one table below its bound
PutKindsBelowBound ==
    /\ ~MustResize(bucket)
    /\ \A c \in {0, 1, 2} : \E key \in Keys : put(bucket, key).ret = c

\* c is what clear() left of b
Cleared(b, c) ==
    /\ \A i \in DOMAIN c.flags : isEmpty(c.flags, i)
    /\ DOMAIN c.flags = 0..(b.capacity - 1)
    /\ c.size = 0 /\ c.occupied = 0
    /\ c.capacity = b.capacity /\ c.upperBound = b.upperBound
    /\ c.entries = b.entries
    /\ \A k \in Keys : get(c, k) = end(c) /\ put(c, k).ret = 1

\* put(k) on c calls no resize
PutsInPlace(c) ==
    \A k \in Keys : putResize(c) = c /\ put(c, k).b.capacity = c.capacity

\* C19 as stated: clear() sets every slot to Empty and size = occupied = 0 and
\* leaves capacity and upperBound; afterwards get(k) = end() for every key and
\* a put of any key returns insertion kind 1 without a resize.
ClearContract == Cleared(bucket, clear(bucket)) /\ PutsInPlace(clear(bucket))

\* C19 amended: as stated for a table of capacity > 0; on the never-used
\* table (capacity 0, upperBound 0) clear() changes nothing and the put that
\* follows returns insertion kind 1 after the resize that sizes the table to
\* 16 slots.
ClearContractSized ==
    /\ Cleared(bucket, clear(bucket))
    /\ bucket.capacity > 0 => PutsInPlace(clear(bucket))
    /\ bucket.capacity = 0 =>
          /\ clear(bucket) = bucket
          /\ \A k \in Keys : put(clear(bucket), k).b.capacity = MIN_CAPACITY

\* a grown table with entries and tombstones, which clear() empties
ClearOfUsedTable ==
    /\ bucket.capacity = 2 * MIN_CAPACITY
    /\ bucket.size >= 3 /\ Tombstones(bucket) > 0
    /\ Present(clear(bucket)) = {}
    /\ clear(bucket).upperBound = 25

\* the capacity resize(n) aims at, and whether it rehashes table b
Target(n) == IF power2Ceil(n) < MIN_CAPACITY THEN MIN_CAPACITY ELSE power2Ceil(n)
Rehashes(b, n) == b.size < calculateUpperBound(Target(n))
\* the live key/value pairs of b (the keys, in a set)
Pairs(b) ==
    {[key |-> b.entries[i].key, value |-> IF ISMAP THEN b.entries[i].value ELSE NoVal] :
        i \in LiveSlots(b)}
\* the requests: those of the caller, those of put, and one past the largest
Requests(b) ==
    ResizeArgs \cup {b.capacity + 1, 2 * MaxResize}
               \cup (IF b.capacity > 0 THEN {b.capacity - 1} ELSE {})

\* r is what a resize that rehashed left of b
Rehashed(b, r) ==
    /\ Pairs(r) = Pairs(b)
    /\ r.size = b.size
    /\ Cardinality(LiveSlots(r)) = r.size
    /\ \A k \in Present(b) : get(r, k) # end(r) /\ hmGet(r, k) = hmGet(b, k)
    /\ Present(r) = Present(b)
    /\ \A i \in DOMAIN r.flags : ~isDeleted(r.flags, i)
    /\ r.occupied = r.size

\* C20: a resize that rehashes, to a larger, a smaller or the same capacity,
\* preserves the logical content: the live key/value pairs and size are as
\* before, every key live before is found by get with its value, no slot is
\* Deleted afterwards, and occupied = size.
ResizePreserves ==
    \A n \in Requests(bucket) :
        Rehashes(bucket, n) =>
            /\ resize(bucket, n).capacity = Target(n)
            /\ Rehashed(bucket, resize(bucket, n))

\* a table of 32 slots with tombstones that rehashes to 16, 32 and 64 slots,
\* a key changing slot each time
ResizeMoves(b, n) == \E k \in Present(b) : get(resize(b, n), k) # get(b, k)
ResizeEachWay ==
    /\ bucket.capacity = 2 * MIN_CAPACITY
    /\ Tombstones(bucket) > 0 /\ bucket.size >= 3
    /\ \A n \in {MIN_CAPACITY, 2 * MIN_CAPACITY, 4 * MIN_CAPACITY} :
          /\ Rehashes(bucket, n) /\ resize(bucket, n).capacity = n
          /\ ResizeMoves(bucket, n)

\* the target of resize(n) is the smallest power of two >= max(n, 16)
Max(a, b) == IF a >= b THEN a ELSE b
SmallestPower2(n) ==
    /\ IsPower2(Target(n))
    /\ Target(n) >= Max(n, MIN_CAPACITY)
    /\ Target(n) \div 2 < Max(n, MIN_CAPACITY)

\* C21 as stated: resize(n) is a no-op if size exceeds the upperBound of the
\* target, and otherwise, also when size equals that upperBound, the table is
\* rehashed (no tombstone is left) and capacity becomes the target.
ResizeNoOpAbove ==
    \A n \in Requests(bucket) :
        IF bucket.size > calculateUpperBound(Target(n))
        THEN resize(bucket, n) = bucket
        ELSE /\ resize(bucket, n).capacity = Target(n)
             /\ resize(bucket, n).occupied = bucket.size

\* C21 amended: the target of resize(n) is the smallest power of two
\* >= max(n, 16); the call is a no-op (capacity, flags, entries, size,
\* occupied and upperBound unchanged) if size is at or above the upperBound of
\* the target, and otherwise the table is rehashed and capacity becomes the
\* target.
ResizeNoOpAtOrAbove ==
    /\ \A n \in 0..(2 * MaxResize + 1) : SmallestPower2(n)
    /\ \A n \in Requests(bucket) :
          IF bucket.size >= calculateUpperBound(Target(n))
          THEN resize(bucket, n) = bucket
          ELSE /\ resize(bucket, n).capacity = Target(n)
               /\ resize(bucket, n).upperBound = calculateUpperBound(Target(n))
               /\ Rehashed(bucket, resize(bucket, n))

\* twelve keys and a tombstone in 32 slots: resize(16), whose bound is 12,
\* leaves the table, resize(32) rehashes it
ResizeAtBound ==
    /\ bucket.capacity = 2 * MIN_CAPACITY
    /\ bucket.size = calculateUpperBound(MIN_CAPACITY)
    /\ Tombstones(bucket) > 0
    /\ resize(bucket, MIN_CAPACITY) = bucket
    /\ resize(bucket, bucket.capacity - 1) # bucket

\* the slots of b at which callback fn returns a code other than 0 and 1
StopSlots(b, fn) == {i \in LiveSlots(b) : fn[getKey(b, i)] \notin {0, 1}}
FirstStop(b, fn) == CHOOSE s \in StopSlots(b, fn) : \A t \in StopSlots(b, fn) : s <= t

\* r is what iterate(fn) left of b when fn stops at slot s
StoppedAt(b, fn, r, s) ==
    /\ Len(r.visited) = Cardinality({i \in LiveSlots(b) : i <= s})
    /\ {r.visited[n] : n \in DOMAIN r.visited} = {i \in LiveSlots(b) : i <= s}
    /\ \A n \in DOMAIN r.visited : n > 1 => r.visited[n - 1] < r.visited[n]
    /\ r.b.capacity = b.capacity
    /\ \A i \in DOMAIN b.flags :
          IF i < s /\ exists(b, i) /\ fn[getKey(b, i)] = 1
          THEN isDeleted(r.b.flags, i)
          ELSE r.b.flags[i] = b.flags[i] /\ r.b.entries[i] = b.entries[i]
    /\ r.b.size = Cardinality(LiveSlots(r.b))

\* C22: when the callback returns a value other than 0 or 1 at a slot,
\* iterate ends there: that slot's entry is not removed and the callback is
\* not invoked for any slot with a higher index; a callback that returns 0
\* everywhere leaves the table unchanged.
IterateStops ==
    \A fn \in Callbacks :
        /\ StopSlots(bucket, fn) # {} =>
              StoppedAt(bucket, fn, iterate(bucket, fn), FirstStop(bucket, fn))
        /\ (\A k \in Keys : fn[k] = 0) => iterate(bucket, fn).b = bucket

\* a callback stops at a slot with entries before it and, behind it, an entry
\* it would have removed
IterateStopsEarly ==
    \E fn \in Callbacks : \E a \in Present(bucket) : \E c \in Present(bucket) :
        /\ fn[a] = 2 /\ fn[c] = 1
        /\ get(bucket, a) < get(bucket, c)
        /\ \E i \in LiveSlots(bucket) : i < get(bucket, a)
        /\ contains(iterate(bucket, fn).b, c)
        /\ Len(iterate(bucket, fn).visited) < Cardinality(LiveSlots(bucket))

NoTombstone(b) == \A i \in DOMAIN b.flags : ~isDeleted(b.flags, i)

\* r is what put(key) left of b, u the table after the first step of put
PutPolicy(b, u, r) ==
    IF MustResize(b)
    THEN /\ u.capacity = IF b.capacity > 2 * b.size THEN b.capacity ELSE 2 * b.capacity
         /\ NoTombstone(u) /\ u.occupied = u.size /\ u.size = b.size
         /\ Present(u) = Present(b)
         /\ r.capacity = u.capacity
         /\ NoTombstone(r) /\ r.occupied = r.size
    ELSE u = b /\ r.capacity = b.capacity

\* C23: when put is entered with occupied >= upperBound on a table of capacity
\* c > 0, then if c > 2 * size the table is rehashed at the same capacity c,
\* all tombstones purged before the key is placed, and otherwise capacity
\* becomes 2 * c; entered with occupied < upperBound, put leaves the capacity.
PutResizePolicy ==
    bucket.capacity > 0 =>
        \A key \in Keys : PutPolicy(bucket, putResize(bucket), put(bucket, key).b)

\* a table at its bound, more than half of it free of entries, yet with more
\* than a quarter in use: the put of an absent key purges the tombstones
PutPurges ==
    /\ MustResize(bucket)
    /\ bucket.capacity > 2 * bucket.size /\ bucket.capacity <= 4 * bucket.size
    /\ \E key \in Keys \ Present(bucket) :
          /\ put(bucket, key).b.capacity = bucket.capacity
          /\ put(bucket, key).b.occupied = bucket.size + 1

FirstDeleted(b, key) ==
    Path(b, key)[CHOOSE n \in DeletedOn(b, key) : \A m \in DeletedOn(b, key) : n <= m]
\* key is absent from b and its probe path passes over a Deleted slot
PassesDeleted(b, key) ==
    b.capacity > 0 /\ ~contains(b, key) /\ DeletedOn(b, key) # {}

\* C24 as stated: when the key is absent and its probe path passes over one or
\* more Deleted slots before reaching an Empty slot, put claims the first
\* Deleted slot on the path, not a later one and not the Empty slot; the puts
\* are those entered with occupied < upperBound.
TombstoneChoiceFirst ==
    \A key \in Keys :
        (PassesDeleted(bucket, key) /\ ~MustResize(bucket)) =>
            /\ put(bucket, key).ret = 2
            /\ put(bucket, key).index = FirstDeleted(bucket, key)

\* C24 amended: entered with occupied < upperBound, put claims the last
\* Deleted slot on the probe path before the Empty slot (the one with the
\* largest attempt number), which is the first one only when the path passes
\* a single Deleted slot, and never the Empty slot; entered with
\* occupied >= upperBound, put rehashes first and claims an Empty slot.
TombstoneChoiceLast ==
    \A key \in Keys :
        PassesDeleted(bucket, key) =>
            IF MustResize(bucket)
            THEN /\ put(bucket, key).ret = 1
                 /\ isEmpty(putResize(bucket).flags, put(bucket, key).index)
            ELSE /\ put(bucket, key).ret = 2
                 /\ put(bucket, key).index = LastDeleted(bucket, key)
                 /\ isDeleted(bucket.flags, put(bucket, key).index)
                 /\ Cardinality(DeletedOn(bucket, key)) = 1 =>
                       put(bucket, key).index = FirstDeleted(bucket, key)

\* the probe path of an absent key passes two Deleted slots or more
TombstoneChoiceDiffers ==
    /\ ~MustResize(bucket)
    /\ \E key \in Keys :
          /\ PassesDeleted(bucket, key)
          /\ Cardinality(DeletedOn(bucket, key)) >= 2
          /\ put(bucket, key).index = LastDeleted(bucket, key)
          /\ put(bucket, key).index # FirstDeleted(bucket, key)

\* r is what remove(x, FALSE) left of b
Removed1(b, x, r) ==
    IF exists(b, x)
    THEN /\ isDeleted(r.flags, x) /\ ~isEmpty(r.flags, x)
         /\ r.size = b.size - 1
         /\ r.occupied = b.occupied
         /\ get(r, getKey(b, x)) = end(r)
         /\ SameButSlot(b, r, x)
    ELSE r = b

\* C25: remove(x, shrink = false): if slot x is Live it becomes Deleted, size
\* drops by one, occupied is unchanged and the key it held is no longer found
\* by get; if x is not Live (Empty, Deleted, or x >= capacity) nothing in the
\* table changes; either way every other slot keeps state, key and value.
RemoveFrame ==
    \A x \in 0..(bucket.capacity + 1) : Removed1(bucket, x, remove(bucket, x, FALSE))

\* a table with Live, Deleted and Empty slots, the key of a Live slot on the
\* probe path of another key
RemoveEachState ==
    /\ bucket.size >= 2 /\ Tombstones(bucket) > 0
    /\ \E x \in LiveSlots(bucket) :
          /\ remove(bucket, x, FALSE).size = bucket.size - 1
          /\ \E k \in Present(bucket) : x \in {Path(bucket, k)[n] : n \in DOMAIN Path(bucket, k)}
                                          /\ x # get(bucket, k)
    /\ \E y \in DOMAIN bucket.flags :
          isDeleted(bucket.flags, y) /\ remove(bucket, y, FALSE) = bucket
    /\ \E z \in DOMAIN bucket.flags :
          isEmpty(bucket.flags, z) /\ remove(bucket, z, FALSE) = bucket

\* the state of slot i as the flag accessors read it
SlotState(flag, i) ==
    IF isEmpty(flag, i) THEN "Empty" ELSE IF isDeleted(flag, i) THEN "Deleted" ELSE "Live"
\* the slots whose state differs between b and r, and the transitions made
Changed(b, r) ==
    {i \in DOMAIN b.flags \cap DOMAIN r.flags : SlotState(r.flags, i) # SlotState(b.flags, i)}
Transitions(b, r) ==
    {<<SlotState(b.flags, i), SlotState(r.flags, i)>> : i \in Changed(b, r)}

\* a put that triggers no resize and a remove (no remove shrinks a table of
\* 4096 entries or fewer)
PutTransitions(b, r) ==
    /\ r.b.capacity = b.capacity
    /\ Changed(b, r.b) \subseteq {r.index}
    /\ Transitions(b, r.b) \subseteq {<<"Empty", "Live">>, <<"Deleted", "Live">>}
RemoveTransitions(b, x, r) ==
    /\ r.capacity = b.capacity
    /\ Changed(b, r) \subseteq {x}
    /\ Transitions(b, r) \subseteq {<<"Live", "Deleted">>}
SlotCalls ==
    /\ \A i \in DOMAIN bucket.flags : bucket.flags[i] \in {0, 1, 2}
    /\ \A key \in Keys :
          (bucket.capacity > 0 /\ ~MustResize(bucket)) =>
              PutTransitions(bucket, put(bucket, key))
    /\ \A x \in 0..bucket.capacity, shrink \in BOOLEAN :
          RemoveTransitions(bucket, x, remove(bucket, x, shrink))

\* a call of any operation: no slot goes from Empty to Deleted, and where a
\* slot goes from Deleted or Live to Empty the flags have been rewritten by
\* resize or clear, which leave no slot Deleted
SlotStep ==
    /\ <<"Empty", "Deleted">> \notin Transitions(bucket, bucket')
    /\ (Transitions(bucket, bucket') \cap {<<"Deleted", "Empty">>, <<"Live", "Empty">>} # {})
          => NoTombstone(bucket')

\* C26: a put or remove call that triggers no resize changes the state of at
\* most one slot, and only along Empty->Live, Deleted->Live (put) or
\* Live->Deleted (remove); a slot goes Deleted->Empty or Live->Empty only
\* through resize or clear, and never Empty->Deleted.
SlotStateMachine == []SlotCalls /\ [][SlotStep]_vars

\* a table below its bound in which a put takes an Empty slot, another a
\* Deleted one, and a rehash at the same capacity empties a Deleted and a Live
\* slot
SlotStateMachineCases ==
    /\ ~MustResize(bucket) /\ bucket.capacity > 0
    /\ \E key \in Keys : Transitions(bucket, put(bucket, key).b) = {<<"Empty", "Live">>}
    /\ \E key \in Keys : Transitions(bucket, put(bucket, key).b) = {<<"Deleted", "Live">>}
    /\ \E x \in LiveSlots(bucket) :
          Transitions(bucket, remove(bucket, x, TRUE)) = {<<"Live", "Deleted">>}
    /\ {<<"Deleted", "Empty">>, <<"Live", "Empty">>}
          \subseteq Transitions(bucket, resize(bucket, bucket.capacity - 1))

\* r is what iterate left of b: the capacity and the count of occupied slots
\* stay and every entry removed has left a tombstone
IterateInPlace(b, r) ==
    /\ r.capacity = b.capacity /\ r.upperBound = b.upperBound
    /\ r.occupied = b.occupied
    /\ Transitions(b, r) \subseteq {<<"Live", "Deleted">>}
    /\ Cardinality(Changed(b, r)) = b.size - r.size

\* a callback on the large table: 1 for the keys of D, 2 for those of S
BulkCallback(D, S) == [k \in Bulk |-> IF k \in D THEN 1 ELSE IF k \in S THEN 2 ELSE 0]
\* the callback removes D, one or two of the keys of the large table, which
\* leaves more than 4096 entries in less than a quarter of the slots
IterateSparsePost(big, D, S, r) ==
    /\ IterateInPlace(big, r)
    /\ r.size > SHRINK_THRESHOLD
    /\ r.size < big.capacity \div 4
    /\ S = {} =>
          /\ r.size = big.size - Cardinality(D)
          /\ \A k \in D : isDeleted(r.flags, get(big, k))
IterateSparse(big, D, S) ==
    IterateSparsePost(big, D, S, iterate(big, BulkCallback(D, S)).b)
\* D takes the first of the victims, alone or with another one
IterateLarge(big) ==
    \A D \in {E \in SUBSET Victims : NumActive + NumFill + 1 \in E /\ E # Victims} :
        \A S \in {{}, Victims \ D} : IterateSparse(big, D, S)

\* C27: iterate never resizes: for any callback returning 0, 1 or another
\* code, capacity and occupied are the same after iterate as before, even when
\* the deletions leave size above 4096 and below capacity / 4; the entries
\* deleted remain as tombstones.  Checked in every state, and from the
\* never-used table on the large table.
IterateNeverResizes ==
    /\ \A fn \in Callbacks : IterateInPlace(bucket, iterate(bucket, fn).b)
    /\ bucket.capacity = 0 => IterateLarge(LargeTable(bucket))

\* an iteration removes two of the 4099 keys of the table of 8 * 4096 slots,
\* from which a remove with shrink would take it to 2 * 4096
IterateLargeRemoved(big, D, r) ==
    /\ r.size = SHRINK_THRESHOLD + 1
    /\ r.capacity = LargeCapacity
    /\ r.occupied = SHRINK_THRESHOLD + Spare
    /\ \E k \in D : remove(big, get(big, k), TRUE).capacity = 2 * SHRINK_THRESHOLD
IterateLargeRemoves(big, D) ==
    IterateLargeRemoved(big, D, iterate(big, BulkCallback(D, {})).b)
IterateLargeCase ==
    /\ bucket.capacity = 0
    /\ \E D \in SUBSET Victims :
          Cardinality(D) = 2 /\ IterateLargeRemoves(LargeTable(bucket), D)

\* C28: for every power-of-two capacity c (16, 32, 64) and every start
\* h0 < c, the positions h_n = (h0 + n(n+1)/2) mod c for n = 0 .. c-1, as the
\* cumulative steps linearProbe(index, ++step, mask) produce them, are
\* pairwise distinct, so that every slot is visited before any slot repeats.
ProbeCoverage ==
    (probe.capacity > 0 /\ probe.step < probe.capacity) =>
        /\ probe.index = (probe.start + (probe.step * (probe.step + 1)) \div 2) % probe.capacity
        /\ Cardinality(probe.seen) = probe.step + 1
        /\ probe.seen \subseteq 0..(probe.capacity - 1)
        /\ probe.step = probe.capacity - 1 => probe.seen = 0..(probe.capacity - 1)

\* a walk over 64 slots from a start other than 0 has seen every slot
ProbeCovered ==
    /\ probe.capacity = 4 * MIN_CAPACITY
    /\ probe.start = 37
    /\ probe.step = probe.capacity - 1
    /\ probe.seen = 0..(probe.capacity - 1)

\* the removes from table b leave its capacity
KeepsCapacity(b, ks) ==
    /\ \A k \in ks : removeKey(b, k).b.capacity = b.capacity
    /\ \A k \in ks : \A shrink \in BOOLEAN :
          remove(b, get(b, k), shrink).capacity = b.capacity
\* a removal from the table of 4096 + 1 keys leaves 4096 in less than a quarter
\* of the slots
EdgeKeeps(big) ==
    /\ big.size = SHRINK_THRESHOLD + 1
    /\ big.size - 1 < big.capacity \div 4
    /\ \A k \in Victims : removeKey(big, k).ret /\ removeKey(big, k).b.size = SHRINK_THRESHOLD
    /\ KeepsCapacity(big, Victims)
SmallRemoves ==
    /\ bucket.size <= SHRINK_THRESHOLD
    /\ KeepsCapacity(bucket, Keys)
    /\ \A x \in 0..bucket.capacity, shrink \in BOOLEAN :
          remove(bucket, x, shrink).capacity = bucket.capacity
    /\ bucket.capacity = 0 => EdgeKeeps(EdgeTable(bucket))

\* C29: a remove or removeKey that leaves size <= 4096 never changes
\* capacity, so under any mix of put, remove, removeKey, iterate and clear,
\* without explicit resize, on a table whose size never exceeds 4096 the
\* capacity is non-decreasing.
SmallNeverShrinks == []SmallRemoves /\ [][bucket'.capacity >= bucket.capacity]_vars

\* a grown table that removals have left with less than a quarter of its slots
\* in use
SmallSparse ==
    /\ bucket.capacity = 2 * MIN_CAPACITY
    /\ bucket.size > 0 /\ bucket.size < bucket.capacity \div 4
    /\ Tombstones(bucket) > 0
    /\ \E k \in Present(bucket) : removeKey(bucket, k).b.capacity = bucket.capacity

DeletedSlots(b) == {i \in DOMAIN b.flags : SlotState(b.flags, i) = "Deleted"}
EmptySlots(b) == {i \in DOMAIN b.flags : SlotState(b.flags, i) = "Empty"}

\* C30: in every reachable state size is the number of Live slots and
\* occupied the number of Live plus Deleted (non-Empty) slots among the
\* indices 0 .. capacity - 1.
Bookkeeping ==
    /\ DOMAIN bucket.flags = 0..(bucket.capacity - 1)
    /\ bucket.size = Cardinality(LiveSlots(bucket))
    /\ bucket.occupied = Cardinality(LiveSlots(bucket)) + Cardinality(DeletedSlots(bucket))
    /\ bucket.occupied = bucket.capacity - Cardinality(EmptySlots(bucket))

\* a grown table with more Deleted slots than Live ones
BookkeepingTombstones ==
    /\ bucket.capacity = 2 * MIN_CAPACITY
    /\ Cardinality(LiveSlots(bucket)) >= 2
    /\ Cardinality(DeletedSlots(bucket)) > Cardinality(LiveSlots(bucket))
    /\ bucket.occupied = bucket.size + Cardinality(DeletedSlots(bucket))

\* the keys the Live slots of b hold
Held(b) == {getKey(b, i) : i \in LiveSlots(b)}
\* the slots of the probe path of key, up to the first Empty slot
OnPath(b, key) == {Path(b, key)[n] : n \in DOMAIN Path(b, key)}

\* C31: in every reachable state, for every Live slot s holding key k,
\* get(k) = s, that is, no Empty slot lies on the probe path of k before s and
\* no two Live slots hold equal keys; for every key that no Live slot holds
\* get returns end().
LookupInvariant ==
    /\ \A s \in LiveSlots(bucket) :
          /\ get(bucket, getKey(bucket, s)) = s
          /\ s \in OnPath(bucket, getKey(bucket, s))
    /\ Cardinality(Held(bucket)) = Cardinality(LiveSlots(bucket))
    /\ \A k \in Keys \ Held(bucket) : get(bucket, k) = end(bucket)

\* a key is found behind a Deleted slot of its probe path, and the path of a
\* key that no slot holds starts at a slot in use
LookupPastTombstone ==
    /\ \E s \in LiveSlots(bucket) :
          \E n \in DeletedOn(bucket, getKey(bucket, s)) :
              \E m \in DOMAIN Path(bucket, getKey(bucket, s)) :
                  n < m /\ Path(bucket, getKey(bucket, s))[m] = s
    /\ \E k \in Keys \ Held(bucket) :
          Path(bucket, k) # <<>> /\ get(bucket, k) = end(bucket)

\* the probe loop of get, counted: the slots it examines, and whether it
\* ends at the full-lap guard
RECURSIVE getAttempts(_, _, _, _, _)
getAttempts(b, key, index, step, start) ==
    IF ~isEmpty(b.flags, index)
       /\ (isDeleted(b.flags, index) \/ ~equal(getKey(b, index), key))
    THEN LET next == linearProbe(index, step + 1, b.capacity - 1)
         IN IF next = start THEN [attempts |-> step + 1, lap |-> TRUE, index |-> index]
            ELSE getAttempts(b, key, next, step + 1, start)
    ELSE [attempts |-> step + 1, lap |-> FALSE, index |-> index]
\* the probe loop of put, counted the same way
RECURSIVE putAttempts(_, _, _, _, _)
putAttempts(b, key, i, step, start) ==
    IF ~isEmpty(b.flags, i) /\ (isDeleted(b.flags, i) \/ ~equal(getKey(b, i), key))
    THEN LET next == linearProbe(i, step + 1, b.capacity - 1)
         IN IF next = start THEN [attempts |-> step + 1, lap |-> TRUE, index |-> i]
            ELSE putAttempts(b, key, next, step + 1, start)
    ELSE [attempts |-> step + 1, lap |-> FALSE, index |-> i]
\* the loop of get(key) on b, and the loop of put(key) on the table put probes
GetLoop(b, key) ==
    getAttempts(b, key, hash(key) % b.capacity, 0, hash(key) % b.capacity)
PutLoop(b, key) ==
    putAttempts(b, key, hash(key) % b.capacity, 0, hash(key) % b.capacity)
\* r is a loop that stopped at an Empty slot or at the Live slot of key,
\* within capacity attempts, and not at the full-lap guard
StopsInLap(b, key, r) ==
    /\ ~r.lap
    /\ r.attempts <= b.capacity
    /\ \/ isEmpty(b.flags, r.index)
       \/ exists(b, r.index) /\ equal(getKey(b, r.index), key)

\* C32: in every reachable state with capacity > 0 at least one slot is Empty
\* (occupied < capacity), so the probe loops of get and put stop at an Empty
\* slot or a matching Live key within capacity attempts, and the full-lap
\* guards of get and put are never taken.
ProbeTermination ==
    /\ bucket.capacity > 0 =>
          /\ bucket.occupied < bucket.capacity
          /\ EmptySlots(bucket) # {}
          /\ \A k \in Keys : StopsInLap(bucket, k, GetLoop(bucket, k))
    /\ \A k \in Keys :
          StopsInLap(putResize(bucket), k, PutLoop(putResize(bucket), k))

\* a table at its bound where a lookup examines four slots or more, and a put
\* that walks over three slots or more of the table it probes
ProbeLong ==
    /\ bucket.capacity > 0
    /\ bucket.occupied = bucket.upperBound
    /\ \E k \in Keys : GetLoop(bucket, k).attempts >= 4
    /\ \E k \in Keys : PutLoop(putResize(bucket), k).attempts >= 3

\* the old slots of the first capacity that still hold an item to move
Unmigrated(st, capacity) ==
    {x \in DOMAIN st.flags : x < capacity /\ ~isEither(st.flags, x)}
HasEmpty(flags) == \E x \in DOMAIN flags : isEmpty(flags, x)

\* the kick-out loop of lines 598-631, counted: c.kicks the displacements made
\* for the source slot so far, c.ok whether every inner probe so far started
\* with an Empty slot in the new flags and stopped at one
RECURSIVE kickCount(_, _, _, _, _, _)
kickCountAt(st, capacity, key, val, newMask, c, i) ==
    IF i < capacity /\ ~isEither(st.flags, i)
    THEN kickCount([place(st, i, key, val) EXCEPT !.flags = setIsdeletedTrue(@, i)],
                   capacity, st.entries[i].key, st.entries[i].value, newMask,
                   [kicks |-> c.kicks + 1, ok |-> c.ok /\ isEmpty(st.newFlags, i)])
    ELSE [st |-> place(st, i, key, val), kicks |-> c.kicks,
          ok |-> c.ok /\ isEmpty(st.newFlags, i)]
kickCount(st, capacity, key, val, newMask, c) ==
    IF HasEmpty(st.newFlags)
    THEN kickCountAt(st, capacity, key, val, newMask, c,
                     probeNew(st.newFlags, hash(key) % (newMask + 1), 0, newMask))
    ELSE [st |-> st, kicks |-> c.kicks, ok |-> FALSE]

\* the loop of lines 582-632 over the old slots lo .. hi - 1, counted: x.st the
\* rehash so far, x.moved the items taken in hand, x.kicks the displacements,
\* x.chain the most displacements for one source slot, x.ok whether every
\* inner probe found an Empty slot and the displacements for each source slot
\* were no more than the items that were still to move when it was taken in
\* hand; the count stops where a probe would not end
rehashCounted(x, left, r) ==
    [st |-> r.st, moved |-> x.moved + 1 + r.kicks, kicks |-> x.kicks + r.kicks,
     chain |-> IF r.kicks > x.chain THEN r.kicks ELSE x.chain,
     ok |-> r.ok /\ r.kicks <= left]
rehashTaken(x, st, capacity, j, newMask) ==
    rehashCounted(x, Cardinality(Unmigrated(st, capacity)),
                  kickCount(st, capacity, st.entries[j].key, st.entries[j].value,
                            newMask, [kicks |-> 0, ok |-> TRUE]))
RECURSIVE rehashCount(_, _, _, _, _)
rehashCount(x, capacity, lo, hi, newMask) ==
    IF lo >= hi \/ ~x.ok THEN x
    ELSE IF hi = lo + 1
    THEN IF ~isEither(x.st.flags, lo)
         THEN rehashTaken(x, [x.st EXCEPT !.flags = setIsdeletedTrue(@, lo)],
                          capacity, lo, newMask)
         ELSE x
    ELSE rehashCount(rehashCount(x, capacity, lo, (lo + hi) \div 2, newMask),
                     capacity, (lo + hi) \div 2, hi, newMask)

\* the rehash of b into newCapacity slots, counted
RehashOf(b, newCapacity) ==
    rehashCount([st |-> [flags |-> b.flags, newFlags |-> createFlags(newCapacity),
                         entries |-> IF b.capacity < newCapacity
                                     THEN resizeContainer(b.entries, newCapacity)
                                     ELSE b.entries],
                 moved |-> 0, kicks |-> 0, chain |-> 0, ok |-> TRUE],
                b.capacity, 0, b.capacity, newCapacity - 1)
\* the capacities resize() is called for: what put and the caller ask for
RehashTargets == {MIN_CAPACITY, 2 * MIN_CAPACITY, 4 * MIN_CAPACITY}
Rehashing(b, newCapacity) == b.size < calculateUpperBound(newCapacity)
\* r is the counted rehash of b into newCapacity slots: it ended, with every
\* Live old slot moved once and the table resize() makes of it
RehashEnds(b, newCapacity, r) ==
    /\ r.ok
    /\ r.moved = b.size
    /\ Unmigrated(r.st, b.capacity) = {}
    /\ Cardinality({x \in DOMAIN r.st.newFlags : ~isEmpty(r.st.newFlags, x)}) = b.size
    /\ adopt(b, newCapacity, r.st) = resizeTo(b, newCapacity)

\* a table of c slots that holds two runs of NumMid keys of Bulk, the keys of
\* the second c above those of the first, which they collide with; and its
\* rehashes into a quarter of its slots, as many, and twice as many
MidCapacities == {4 * MIN_CAPACITY, 8 * MIN_CAPACITY, 16 * MIN_CAPACITY}
MidTable(b, c) ==
    bulkPut(bulkPut(resize(b, c), NumActive + NumFill + 1,
                    NumActive + NumFill + NumMid),
            NumActive + NumFill + c + 1, NumActive + NumFill + c + NumMid)
RehashMid(mid, c) ==
    \A n \in {c \div 4, c, 2 * c} :
        Rehashing(mid, n) => RehashEnds(mid, n, RehashOf(mid, n))

\* C33: every resize call made in a reachable state terminates: the inner
\* probe over the new flag vector always finds an Empty slot, the kick-out
\* loop for one source slot ends after at most as many displacements as there
\* are still-unmigrated Live old slots, and each Live old slot is migrated
\* exactly once.
RehashTermination ==
    /\ \A n \in RehashTargets :
          Rehashing(bucket, n) => RehashEnds(bucket, n, RehashOf(bucket, n))
    /\ bucket.capacity = 0 =>
          \A c \in MidCapacities : RehashMid(MidTable(Khash, c), c)

\* rehashes of a reachable table into as many and into twice as many slots
\* that displace an item, a rehash of a mid-size table into as many slots with
\* three displacements for one source slot, and one into a quarter of the slots
RehashKicks ==
    /\ bucket.capacity = MIN_CAPACITY
    /\ RehashOf(bucket, MIN_CAPACITY).kicks >= 1
    /\ RehashOf(bucket, 2 * MIN_CAPACITY).kicks >= 1
    /\ RehashOf(MidTable(Khash, 4 * MIN_CAPACITY), 4 * MIN_CAPACITY).chain >= 3
    /\ Rehashing(MidTable(Khash, 16 * MIN_CAPACITY), 4 * MIN_CAPACITY)
    /\ RehashOf(MidTable(Khash, 16 * MIN_CAPACITY), 4 * MIN_CAPACITY).moved = 2 * NumMid

\* C34: starting from an empty table, under any sequence of put, hmPut,
\* hmReplace, remove and removeKey in which size never exceeds 7, capacity never
\* exceeds 16: the tombstones that pile up are reclaimed by a rehash at the
\* same capacity instead of a growth.
ChurnKeepsCapacity ==
    /\ bucket.size <= MaxChurn
    /\ bucket.capacity <= MIN_CAPACITY
    /\ \A k \in Keys :
          put(bucket, k).b.size <= MaxChurn =>
              put(bucket, k).b.capacity <= MIN_CAPACITY

\* a table of 16 slots at its bound, tombstones among them, with fewer than 7
\* entries: the put of an absent key rehashes it into 16 slots
ChurnPurges ==
    /\ bucket.capacity = MIN_CAPACITY
    /\ MustResize(bucket)
    /\ bucket.size < MaxChurn
    /\ \E k \in Keys :
          /\ ~contains(bucket, k)
          /\ put(bucket, k).b.capacity = MIN_CAPACITY
          /\ put(bucket, k).b.occupied = bucket.size + 1

\* the shrink condition of remove, for a table of n entries in c slots
Sparse(n, c) == n > SHRINK_THRESHOLD /\ n < c \div 4
\* the capacity the shrink of a table of n entries asks resize() for
ShrinkTarget(n) == Target((n * 150) \div 77)
\* new is the capacity after the shrink of a table of n entries in c slots
Settled(n, c, new) ==
    /\ 2 * new <= c
    /\ n < calculateUpperBound(new)
    /\ n >= new \div 4
    /\ ~Sparse(n, new)
\* the capacities of a table of up to MaxShrink entries that is sparse
SparseCapacities == {LargeCapacity, 2 * LargeCapacity, 4 * LargeCapacity,
                     8 * LargeCapacity, 16 * LargeCapacity}
ShrinkArithmetic ==
    \A c \in SparseCapacities : \A n \in (SHRINK_THRESHOLD + 1)..MaxShrink :
        Sparse(n, c) => Settled(n, c, ShrinkTarget(n))
\* r is what remove(x, TRUE) of a Live slot left of table b, which it found
\* sparse: a table that the same remove leaves as it is
ShrinkSettles(b, r) ==
    /\ Sparse(b.size - 1, b.capacity)
    /\ r.size = b.size - 1
    /\ r.capacity = ShrinkTarget(r.size)
    /\ Settled(r.size, b.capacity, r.capacity)
    /\ r.size < r.upperBound
    /\ removeShrink(r, TRUE) = r

\* C35: immediately after a remove-triggered shrink the new capacity is at
\* most half the old capacity, size < upperBound and size >= capacity / 4, so
\* the shrink condition is false in the resulting state.
NoShrinkThrashing ==
    bucket.capacity = 0 =>
        /\ ShrinkArithmetic
        /\ \A k \in Victims :
              ShrinkSettles(LargeTable(bucket), removeKey(LargeTable(bucket), k).b)

\* the large table shrinks from 8 * 4096 slots to 2 * 4096, where its
\* 4096 + 2 entries are more than a quarter and less than the bound
ShrinkLands ==
    /\ bucket.capacity = 0
    /\ Sparse(SHRINK_THRESHOLD + Spare - 1, LargeCapacity)
    /\ ShrinkTarget(SHRINK_THRESHOLD + Spare - 1) = 2 * SHRINK_THRESHOLD
    /\ \E k \in Victims :
          removeKey(LargeTable(bucket), k).b.capacity = 2 * SHRINK_THRESHOLD

\* the Live slots of b that hold value v
Holding(b, v) == {i \in LiveSlots(b) : getValue(b, i) = v}
\* r is a table with as many entries as b and the same values, each as often
Conserved(b, r) ==
    /\ r.size = b.size
    /\ Cardinality(LiveSlots(r)) = Cardinality(LiveSlots(b))
    /\ \A v \in Vals \cup {NoVal} :
          Cardinality(Holding(r, v)) = Cardinality(Holding(b, v))

\* the keys hmSwap is called with next to key first: any key next to an active
\* key, an active key or the key itself next to a filler key
SwapWith(first) == IF first \in Active THEN Keys ELSE Active \cup {first}

\* C36: in every case of hmSwap (exchange, migration in either direction,
\* same key, neither key present, swap disabled) size after the call equals
\* size before it and the multiset of the stored values is unchanged.
HmSwapConserves ==
    \A first \in Keys : \A second \in SwapWith(first) : \A swap \in BOOLEAN :
        Conserved(bucket, hmSwap(bucket, first, second, swap).b)

\* a map with two keys of different values and a key that is absent: an
\* exchange changes the table, a migration rehashes it, and the call with the
\* swap disabled returns false
HmSwapCases ==
    /\ ISMAP
    /\ \E x \in Present(bucket) : \E y \in Present(bucket) :
          /\ getValue(bucket, get(bucket, x)) # getValue(bucket, get(bucket, y))
          /\ hmSwap(bucket, x, y, TRUE).b # bucket
          /\ ~hmSwap(bucket, x, y, FALSE).ret
    /\ \E x \in Present(bucket) : \E z \in Keys \ Present(bucket) :
          /\ hmSwap(bucket, x, z, FALSE).ret
          /\ hmSwap(bucket, z, x, TRUE).ret
          /\ hmSwap(bucket, x, z, TRUE).b.occupied < bucket.occupied
    /\ \E z \in Keys \ Present(bucket) : ~hmSwap(bucket, z, z, TRUE).ret

\* every identification request of origin o is answered REJECTED and leaves
\* waitlist w as it is
IdentificationRejected(w, o) ==
    \A nonce \in 0..1, loaded \in BOOLEAN, salted \in BOOLEAN, generated \in BOOLEAN :
        handleIdentificationRequest(w, o, nonce, loaded, salted, generated)
            = handleInvalidRequest(w)
\* so is every authentication and every authorization request of o
AllRejected(w, o) ==
    /\ IdentificationRejected(w, o)
    /\ \A proved \in BOOLEAN :
          handleAuthenticationRequest(w, o, proved) = handleInvalidRequest(w)
    /\ \A authenticated \in BOOLEAN, signed \in BOOLEAN :
          handleAuthorizationRequest(w, o, authenticated, signed)
              = handleInvalidRequest(w)
LockedOut(o) == lockedOut[o] # "no"
\* an origin whose request has failed is mapped to nullptr and is answered
\* REJECTED whatever it asks; an origin in the waitlist cannot identify again
LockOutState ==
    \A o \in Origins :
        /\ LockedOut(o) =>
              /\ hmGet(waitlist, o) = [ret |-> TRUE, val |-> nullptr]
              /\ AllRejected(waitlist, o)
        /\ contains(waitlist, o) => IdentificationRejected(waitlist, o)
\* a step that routes a message of a locked-out origin answers it REJECTED and
\* leaves the waitlist; the origin stays locked out until a stop() that
\* removes its entry
LockOutStep ==
    \A o \in Origins :
        LockedOut(o) =>
            /\ message'.origin = o =>
                  /\ message'.status = WH_AQLF_REJECTED
                  /\ waitlist' = waitlist
                  /\ lockedOut'[o] = lockedOut[o]
            /\ ~LockedOut(o)' => message' = NoMessage /\ ~contains(waitlist', o)
            /\ message' # NoMessage => hmGet(waitlist', o) = hmGet(waitlist, o)

\* C37: once an identification request of an origin has failed, or its
\* authentication proof has been rejected, the waitlist maps the origin to a
\* null authenticator, and every later identification, authentication and
\* authorization request of the origin is answered REJECTED and leaves the
\* waitlist unchanged, until stop() removes the entry of the origin; a second
\* identification request of an origin that is in the waitlist is rejected
\* and does not replace its pending authenticator.
AuthenticationLockOut == []LockOutState /\ [][LockOutStep]_vars

\* one origin locked out by a failed identification, one by a rejected proof,
\* one with a pending authenticator, and an authorization request of the
\* first that has just been answered REJECTED
LockedOutCases ==
    \E o1 \in Origins, o2 \in Origins, o3 \in Origins :
        /\ lockedOut[o1] = "identification"
        /\ lockedOut[o2] = "proof"
        /\ hmGet(waitlist, o3) = [ret |-> TRUE, val |-> Authenticator]
        /\ message = [origin |-> o1, request |-> "authorization",
                      status |-> WH_AQLF_REJECTED]
====
